---- MODULE Spec2Model ----
(***************************************************************************)
(* Model of the geopolitical-risk analytics pipeline:                      *)
(*   src/src/data_unifier.py          loaders and the schema unifier       *)
(*   src/src/correlation_analyzer.py  interpolation, volatility, returns   *)
(*                                    and the lag-correlation table        *)
(*   src/src/main.py                  the stage orchestrator               *)
(*                                                                         *)
(* A table (pandas DataFrame / CSV file) is a record                       *)
(*   [exists, cols, rows]: cols the set of column names, rows a sequence   *)
(*   of functions from cols to cell values.                                *)
(* A numeric cell is an integer; NA is the missing marker (NaN).  Dates    *)
(* are calendar-day numbers.  Input values are multiples of Unit so that   *)
(* the divisions of the code (interpolation, mean over countries) are      *)
(* exact in integer arithmetic.                                            *)
(***************************************************************************)
EXTENDS Integers, Sequences, FiniteSets, TLC

VARIABLES
    files,      \* the input files under data/, by name
    unified,    \* data/processed/unified_timeseries.csv
    geoNorm,    \* data/processed/geopolitical_normalized.csv
    enriched,   \* data/processed/unified_timeseries_enriched.csv
    merged,     \* the date-aligned table of analyze_geopolitical_correlations
    corrMatrix, \* results/correlation_matrix.csv
    reports,    \* results/btc_forecast.csv, stress_scenarios.csv and
                \* early_warning_signals.csv: [forecast, scenarios, signals]
    pc,         \* position of main.py: the stage to start next, or "done"
    started,    \* the stages started so far, in order
    lastOk,     \* result of the last run_script call ("none" before the first)
    exitCode,   \* return value of main.py (-1 while running)
    lcIn,       \* argument series of a direct call of lagged_correlation
    lcOut,      \* its result
    callIn,     \* arguments of a direct call of another function of the repository
    callOut     \* its result

vars == <<files, unified, geoNorm, enriched, merged, corrMatrix, reports,
          pc, started, lastOk, exitCode, lcIn, lcOut, callIn, callOut>>

----------------------------------------------------------------------------
(* Bounds of the model *)

MaxDay == 9        \* calendar days 1..MaxDay occur in the input files
ShortLen == 4      \* length of a short source (the 4-point series of the spec)

Days == 1..MaxDay
GapDay == MaxDay - 5   \* the day a gapped source does not list
DupDay == MaxDay - 2   \* the day a source with a repeated date lists twice
LateDay == MaxDay - 7  \* first day of a source that starts late
Unit == 2 * 3          \* input values are multiples of Unit (divisors 2 and 3 occur)

NA == 0 - 1            \* the missing value (NaN, NaT); every real value is >= 0

BadDate == 0 - 2       \* a date cell whose text is not a date ("n/a", "31/31/2025")

----------------------------------------------------------------------------
(* Timestamps *)

\* a timestamp (datetime64) counts TicksPerDay ticks per calendar day; a
\* calendar day d, a date without time of day, is the timestamp of its
\* midnight, and a timestamp that is not a multiple of TicksPerDay carries a
\* time of day
TicksPerDay == 2

Midnight(d) == d * TicksPerDay

\* the calendar day a timestamp lies in
DayOf(ts) == ts \div TicksPerDay

\* timedelta(days=n)
Timedelta(days) == days * TicksPerDay

----------------------------------------------------------------------------
(* Generic table helpers (pandas semantics) *)

NoTable == [exists |-> FALSE, cols |-> {}, rows |-> <<>>]

Table(cols, rows) == [exists |-> TRUE, cols |-> cols, rows |-> rows]

\* pd.DataFrame(): no columns, no rows
EmptyFrame == Table({}, <<>>)

\* DataFrame.empty
IsEmpty(t) == t.cols = {} \/ t.rows = <<>>

DatesOf(t) == {t.rows[i]["date"] : i \in 1..Len(t.rows)}

Column(t, c) == [i \in 1..Len(t.rows) |-> t.rows[i][c]]

SetMin(S) == CHOOSE m \in S : \A x \in S : m <= x

RECURSIVE SortedSeq(_)
SortedSeq(S) == IF S = {} THEN <<>>
                ELSE LET m == SetMin(S) IN <<m>> \o SortedSeq(S \ {m})

RECURSIVE Flatten(_)
Flatten(ss) == IF ss = <<>> THEN <<>> ELSE Head(ss) \o Flatten(Tail(ss))

\* Countries in the column order of the wide risk files (alphabetical)
CountrySeq == <<"Atlantis", "Saudi Arabia", "USA">>

Countries == {CountrySeq[i] : i \in 1..Len(CountrySeq)}

CountryIndex(c) == CHOOSE i \in 1..Len(CountrySeq) : CountrySeq[i] = c

\* The merge keys used by the code: on='date' and on=['date', 'country'].
\* A key is encoded as one integer that orders like the key tuple.
KeyCols(on) == IF on = "date" THEN {"date"} ELSE {"date", "country"}

KeyOf(r, on) == IF on = "date" THEN r["date"]
                ELSE r["date"] * (Len(CountrySeq) + 1) + CountryIndex(r["country"])

KeysOf(t, on) == {KeyOf(t.rows[i], on) : i \in 1..Len(t.rows)}

RowsWithKey(rows, on, k) == SelectSeq(rows, LAMBDA r : KeyOf(r, on) = k)

\* one merged row: the left row's cells, then the right row's
JoinRows(l, r) == [c \in (DOMAIN l) \cup (DOMAIN r) |->
                     IF c \in DOMAIN l THEN l[c] ELSE r[c]]

NARow(cols) == [c \in cols |-> NA]

\* rows of one key of a merge: the cartesian product of the matching rows
KeyProduct(ls, rs) ==
    [k \in 1..(Len(ls) * Len(rs)) |->
        JoinRows(ls[((k - 1) \div Len(rs)) + 1], rs[((k - 1) % Len(rs)) + 1])]

\* DataFrame.merge(right, on=..., how='inner'): left key order kept
MergeInner(l, r, on) ==
    Table(l.cols \cup r.cols,
          Flatten([i \in 1..Len(l.rows) |->
              KeyProduct(<<l.rows[i]>>, RowsWithKey(r.rows, on, KeyOf(l.rows[i], on)))]))

\* variant of the outer merge: DataFrame.merge(right, on=..., how='left')
MergeLeft(l, r, on) ==
    Table(l.cols \cup r.cols,
          Flatten([i \in 1..Len(l.rows) |->
              LET rs == RowsWithKey(r.rows, on, KeyOf(l.rows[i], on))
              IN IF rs = <<>>
                 THEN <<JoinRows(l.rows[i], NARow(r.cols \ KeyCols(on)))>>
                 ELSE KeyProduct(<<l.rows[i]>>, rs)]))

\* DataFrame.merge(right, on=..., how='outer'): every key of either side,
\* keys sorted, a key on both sides gives the product of its rows
MergeOuter(l, r, on) ==
    LET keys == SortedSeq(KeysOf(l, on) \cup KeysOf(r, on))
        block(k) ==
            LET ls == RowsWithKey(l.rows, on, k)
                rs == RowsWithKey(r.rows, on, k)
            IN IF rs = <<>>
               THEN [j \in 1..Len(ls) |-> JoinRows(ls[j], NARow(r.cols \ KeyCols(on)))]
               ELSE IF ls = <<>>
               THEN [j \in 1..Len(rs) |-> JoinRows(rs[j], NARow(l.cols \ KeyCols(on)))]
               ELSE KeyProduct(ls, rs)
    IN Table(l.cols \cup r.cols, Flatten([j \in 1..Len(keys) |-> block(keys[j])]))

\* DataFrame.sort_values('date'): ascending, rows of one date keep their order
SortByDate(t) ==
    LET keys == SortedSeq(DatesOf(t))
    IN Table(t.cols,
             Flatten([j \in 1..Len(keys) |-> RowsWithKey(t.rows, "date", keys[j])]))

\* DataFrame.rename(columns={from: to}) on every row
RenameCol(t, from, to) ==
    Table((t.cols \ {from}) \cup {to},
          [i \in 1..Len(t.rows) |->
              [c \in (t.cols \ {from}) \cup {to} |->
                  IF c = to THEN t.rows[i][from] ELSE t.rows[i][c]]])

\* pd.to_datetime(df['date'], errors='coerce') on a column of date strings:
\* the calendar day d becomes the timestamp of its midnight, a text that is
\* not a date becomes NaT
ToDatetimeCoerce(t) ==
    Table(t.cols,
          [i \in 1..Len(t.rows) |->
              [c \in t.cols |->
                  IF c # "date" \/ t.rows[i][c] = NA THEN t.rows[i][c]
                  ELSE IF t.rows[i][c] = BadDate THEN NA
                  ELSE Midnight(t.rows[i][c])]])

\* df['date'] = pd.to_datetime(df['date']), errors='raise' by default:
\* [raised, df]; a text that is not a date raises ValueError
ToDatetime(t) ==
    IF \E i \in 1..Len(t.rows) : t.rows[i]["date"] = BadDate
    THEN [raised |-> TRUE, df |-> t]
    ELSE [raised |-> FALSE, df |-> ToDatetimeCoerce(t)]

\* pd.to_datetime(df['date'], errors='coerce', utc=True) and
\* .dt.tz_localize(None) on a column of timestamps with time zone, held as
\* ticks of the UTC clock: the time zone mark is dropped, the UTC clock reading
\* with its time of day is kept; a text that is not a timestamp becomes NaT
ToNaiveUTC(t) ==
    Table(t.cols,
          [i \in 1..Len(t.rows) |->
              [c \in t.cols |->
                  IF c # "date" \/ t.rows[i][c] = NA THEN t.rows[i][c]
                  ELSE IF t.rows[i][c] = BadDate THEN NA
                  ELSE Midnight(DayOf(t.rows[i][c])) + (t.rows[i][c] % TicksPerDay)]])

\* DataFrame.dropna(subset=cols, how='all')
DropAllNA(t, cols) ==
    Table(t.cols, SelectSeq(t.rows, LAMBDA r : \E c \in cols : r[c] # NA))

----------------------------------------------------------------------------
(* The input files *)

MarketFiles == {"brent", "wti", "gpu", "ram", "btc"}

\* files dict of load_geopolitical_data, in its order
IndicatorSeq == <<"geopolitical_risk", "conflicts", "bilateral_tensions",
                  "trade_policy_uncertainty", "economic_policy_uncertainty">>

Indicators == {IndicatorSeq[i] : i \in 1..Len(IndicatorSeq)}

FileNames == MarketFiles \cup Indicators

GpuCols == {"gpu_high_median", "gpu_mid_median", "gpu_low_median"}

RamCols == {"ram_16gb_median", "ram_32gb_median", "ram_ddr4_median", "ram_ddr5_median"}

\* the day sets a source file may list
DayShape(shape) ==
    CASE shape = "full"  -> Days
      [] shape = "dup"   -> Days
      [] shape = "gap"   -> Days \ {GapDay}
      [] shape = "short" -> 1..ShortLen
      [] shape = "late"  -> LateDay..MaxDay
      [] shape = "intraday" -> Days
      [] shape = "baddate"  -> Days

\* the price a market file lists in a column on a day (the n-th listing of
\* a repeated day carries another price)
PriceOf(name, col, d, nth) ==
    Unit * (CASE name = "brent"           -> 10 + ((3 * d) % 5)
              [] name = "wti"             -> 9 + ((2 * d) % 7)
              [] name = "btc"             -> 20 + ((d * d) % 6)
              [] col = "gpu_high_median"  -> 15 + (d % 4)
              [] col = "gpu_mid_median"   -> 8 + ((5 * d) % 3)
              [] col = "gpu_low_median"   -> 4
              [] col = "ram_ddr5_median"  -> 3 + (d % 2)
              [] OTHER                    -> 2 + ((d + 1) % 3))
    + Unit * (nth - 1)

\* columns of a market file as it lies on disk
RawCols(name) ==
    CASE name = "brent" -> {"Date", "Price"}
      [] name = "wti"   -> {"Date", "Price"}
      [] name = "gpu"   -> {"date"} \cup GpuCols
      [] name = "ram"   -> {"date"} \cup RamCols
      [] name = "btc"   -> {"snapped_at", "price"}

RawDateCol(name) ==
    CASE name \in {"brent", "wti"} -> "Date"
      [] name \in {"gpu", "ram"}   -> "date"
      [] name = "btc"              -> "snapped_at"

\* the date cell of a market file for day d: a date string (the day) in the
\* oil and hardware files, a timestamp with time zone in the crypto file,
\* stamped at midnight UTC except for the last row of an "intraday" file,
\* which is stamped later in the day; the cell of GapDay in a "baddate" file
\* holds a text that is not a date
RawDate(name, shape, d) ==
    IF shape = "baddate" /\ d = GapDay THEN BadDate
    ELSE IF name = "btc"
    THEN Midnight(d) + (IF shape = "intraday" /\ d = MaxDay THEN 1 ELSE 0)
    ELSE d

\* a market file listing the days of `shape` (DupDay twice when shape = "dup")
MarketFile(name, shape) ==
    IF shape = "absent" THEN NoTable
    ELSE LET ds == SortedSeq(DayShape(shape))
             row(d, nth) == [c \in RawCols(name) |->
                                IF c = RawDateCol(name) THEN RawDate(name, shape, d)
                                ELSE PriceOf(name, c, d, nth)]
         IN Table(RawCols(name),
                  Flatten([k \in 1..Len(ds) |->
                      IF shape = "dup" /\ ds[k] = DupDay
                      THEN <<row(ds[k], 1), row(ds[k], 2)>>
                      ELSE <<row(ds[k], 1)>>]))

\* the value a wide risk file holds for a country on a day (NA: empty cell)
RiskOf(ind, c, d) ==
    LET i == CountryIndex(c) IN
    CASE ind = "geopolitical_risk" ->
             IF c = "Atlantis" /\ d % 3 = 0 THEN NA ELSE Unit * ((d * i + i) % 4)
      [] ind = "conflicts" ->
             IF c = "USA" /\ d = 1 THEN NA ELSE Unit * ((d * i + 1) % 3)
      [] ind = "bilateral_tensions" -> Unit * ((d * d + i) % 5)
      [] OTHER -> Unit * (i + (d % 2))

\* a wide risk file: one identifier column "Date", one column per country
RiskFile(ind, shape) ==
    IF shape = "absent" THEN NoTable
    ELSE LET ds == SortedSeq(DayShape(shape))
         IN Table({"Date"} \cup Countries,
                  [k \in 1..Len(ds) |->
                      [c \in {"Date"} \cup Countries |->
                          IF c = "Date" THEN ds[k] ELSE RiskOf(ind, c, ds[k])]])

----------------------------------------------------------------------------
(* data_unifier.py *)

\* COUNTRY_TAGS, for the countries of the model
CountryTags(c) ==
    CASE c = "USA"          -> {"geopolitical_core", "tech_supply_chain", "financial_systemic"}
      [] c = "Saudi Arabia" -> {"energy_markets", "maritime_choke_points"}
      [] OTHER              -> {}

TagCols == {"is_geopolitical_core", "is_active_conflict", "is_energy_market",
            "is_tech_supply_chain", "is_strategic_minerals",
            "is_financial_systemic", "is_maritime_choke"}

\* col.replace('is_', '')
TagOfCol(col) ==
    CASE col = "is_geopolitical_core"  -> "geopolitical_core"
      [] col = "is_active_conflict"    -> "active_conflict"
      [] col = "is_energy_market"      -> "energy_market"
      [] col = "is_tech_supply_chain"  -> "tech_supply_chain"
      [] col = "is_strategic_minerals" -> "strategic_minerals"
      [] col = "is_financial_systemic" -> "financial_systemic"
      [] col = "is_maritime_choke"     -> "maritime_choke"

\* df.melt(id_vars, value_vars, var_name='country', value_name=key) and the
\* rename of the identifier column to 'date': country-major row order
Melt(wide, key) ==
    Table({"date", "country", key},
          Flatten([ci \in 1..Len(CountrySeq) |->
              [k \in 1..Len(wide.rows) |->
                  [c \in {"date", "country", key} |->
                      CASE c = "date"    -> wide.rows[k]["Date"]
                        [] c = "country" -> CountrySeq[ci]
                        [] OTHER         -> wide.rows[k][CountrySeq[ci]]]]]))

RECURSIVE MergeIndicators(_, _, _)
MergeIndicators(base, fs, i) ==
    IF i > Len(IndicatorSeq) THEN base
    ELSE IF fs[IndicatorSeq[i]].exists
         THEN MergeIndicators(
                  MergeOuter(base, Melt(fs[IndicatorSeq[i]], IndicatorSeq[i]), "date_country"),
                  fs, i + 1)
         ELSE MergeIndicators(base, fs, i + 1)

\* load_geopolitical_data: [raised, df]
load_geopolitical_data(fs) ==
    IF \A ind \in Indicators : ~fs[ind].exists
    THEN [raised |-> FALSE, df |-> EmptyFrame]
    ELSE IF ~fs["geopolitical_risk"].exists
    THEN [raised |-> TRUE, df |-> EmptyFrame]      \* KeyError: dfs['geopolitical_risk']
    ELSE LET base == MergeIndicators(Melt(fs["geopolitical_risk"], "geopolitical_risk"), fs, 2)
         IN [raised |-> FALSE,
             df |-> DropAllNA(ToDatetimeCoerce(base), base.cols \cap Indicators)]

\* the outer merges of a loader over the files it found
RECURSIVE MergeAll(_, _)
MergeAll(acc, rest) ==
    IF rest = <<>> THEN acc
    ELSE MergeAll(MergeOuter(acc, Head(rest), "date"), Tail(rest))

\* df.columns = ['date', <price column>]; df['date'] = pd.to_datetime(df['date'])
OilFrame(f, price) == ToDatetime(RenameCol(RenameCol(f, "Date", "date"), "Price", price))

\* the frames a loader reads from the files it finds, and their outer merges:
\* [raised, df]; an exception of a conversion leaves the loader
LoadFrames(frames) ==
    LET found == SelectSeq(frames, LAMBDA f : f.found)
        dfs   == [k \in 1..Len(found) |-> found[k].conv.df]
    IN IF \E k \in 1..Len(found) : found[k].conv.raised
       THEN [raised |-> TRUE, df |-> EmptyFrame]
       ELSE IF dfs = <<>> THEN [raised |-> FALSE, df |-> EmptyFrame]
       ELSE [raised |-> FALSE, df |-> SortByDate(MergeAll(Head(dfs), Tail(dfs)))]

NotRead == [raised |-> FALSE, df |-> EmptyFrame]

\* load_oil_data: [raised, df]
load_oil_data(fs) ==
    LoadFrames(<<[found |-> fs["brent"].exists,
                  conv  |-> IF fs["brent"].exists
                            THEN OilFrame(fs["brent"], "brent_price_usd") ELSE NotRead],
                 [found |-> fs["wti"].exists,
                  conv  |-> IF fs["wti"].exists
                            THEN OilFrame(fs["wti"], "wti_price_usd") ELSE NotRead]>>)

\* load_hardware_data: [raised, df]
load_hardware_data(fs) ==
    LoadFrames(<<[found |-> fs["gpu"].exists,
                  conv  |-> IF fs["gpu"].exists THEN ToDatetime(fs["gpu"]) ELSE NotRead],
                 [found |-> fs["ram"].exists,
                  conv  |-> IF fs["ram"].exists THEN ToDatetime(fs["ram"]) ELSE NotRead]>>)

load_bitcoin_data(fs) ==
    IF ~fs["btc"].exists THEN EmptyFrame
    ELSE IF {"snapped_at", "price"} \subseteq fs["btc"].cols
    THEN LET df == RenameCol(RenameCol(fs["btc"], "snapped_at", "date"),
                             "price", "btc_price_usd")
         IN SortByDate(DropAllNA(ToNaiveUTC(df), {"date"}))
    ELSE EmptyFrame

add_country_metadata(df) ==
    IF "country" \notin df.cols \/ df.rows = <<>> THEN df
    ELSE Table(df.cols \cup TagCols,
               [i \in 1..Len(df.rows) |->
                   [c \in df.cols \cup TagCols |->
                       IF c \in TagCols
                       THEN (IF TagOfCol(c) \in CountryTags(df.rows[i]["country"])
                             THEN 1 ELSE 0)
                       ELSE df.rows[i][c]]])

SetMax(S) == CHOOSE m \in S : \A x \in S : m >= x

\* geo_df[(geo_df['date'] >= min_date) & (geo_df['date'] <= max_date)]
FilterDateRange(geo, base) ==
    Table(geo.cols,
          SelectSeq(geo.rows, LAMBDA r : /\ r["date"] >= SetMin(DatesOf(base))
                                         /\ r["date"] <= SetMax(DatesOf(base))))

\* the base table of main before it is sorted and written; NoTable when main
\* returns at 'No time series data available'
UnifierBase(oil, hw, btc) ==
    IF IsEmpty(oil) /\ IsEmpty(hw) THEN NoTable
    ELSE LET b0 == IF ~IsEmpty(oil) THEN oil ELSE hw
             b1 == IF ~IsEmpty(hw) /\ ~IsEmpty(oil) THEN MergeOuter(b0, hw, "date") ELSE b0
         IN IF ~IsEmpty(btc) THEN MergeOuter(b1, btc, "date") ELSE b1

\* DataFrame.to_csv(path, mode='a') on a file that exists: the rows are
\* appended to the rows the file holds
AppendTo(old, new) ==
    IF old.exists /\ old.cols = new.cols THEN Table(new.cols, old.rows \o new.rows) ELSE new

\* variant of main: the two output files are opened for appending
UnifierMain_Append(fs, oldUnified, oldGeo) ==
    LET geo  == load_geopolitical_data(fs)
        oil  == load_oil_data(fs)
        hw   == load_hardware_data(fs)
        base == UnifierBase(oil.df, hw.df, load_bitcoin_data(fs))
    IN IF geo.raised \/ oil.raised \/ hw.raised
       THEN [raised |-> TRUE, unified |-> oldUnified, geoNorm |-> oldGeo]
       ELSE IF ~base.exists
       THEN [raised |-> FALSE, unified |-> oldUnified, geoNorm |-> oldGeo]
       ELSE [raised  |-> FALSE,
             unified |-> AppendTo(oldUnified, SortByDate(base)),
             geoNorm |-> IF IsEmpty(geo.df) THEN oldGeo
                         ELSE AppendTo(oldGeo,
                                       FilterDateRange(add_country_metadata(geo.df), base))]

\* main of data_unifier.py: [raised, unified, geoNorm], the two output files
\* as main leaves them (a file it does not write keeps its old content)
UnifierMain(fs, oldUnified, oldGeo) ==
    LET geo  == load_geopolitical_data(fs)
        oil  == load_oil_data(fs)
        hw   == load_hardware_data(fs)
        base == UnifierBase(oil.df, hw.df, load_bitcoin_data(fs))
    IN IF geo.raised \/ oil.raised \/ hw.raised
       THEN [raised |-> TRUE, unified |-> oldUnified, geoNorm |-> oldGeo]
       ELSE IF ~base.exists
       THEN [raised |-> FALSE, unified |-> oldUnified, geoNorm |-> oldGeo]
       ELSE [raised  |-> FALSE,
             unified |-> SortByDate(base),
             geoNorm |-> IF IsEmpty(geo.df) THEN oldGeo
                         ELSE FilterDateRange(add_country_metadata(geo.df), base)]

----------------------------------------------------------------------------
(* correlation_analyzer.py *)

Window == 7    \* rolling window of the volatility columns

RECURSIVE SumTo(_, _)
\* f[1] + ... + f[n]
SumTo(f, n) == IF n = 0 THEN 0 ELSE f[n] + SumTo(f, n - 1)

\* columns c with 'price' in c or 'median' in c
IsPriceLike(c) ==
    c \in {"brent_price_usd", "wti_price_usd", "btc_price_usd"} \cup GpuCols \cup RamCols

\* Series.interpolate(method='linear', limit_direction='forward'): a missing
\* value after the first valid one lies on the line between its valid
\* neighbours (by position); after the last valid value it repeats that value;
\* before the first valid value it stays missing
Interpolate(s) ==
    [i \in 1..Len(s) |->
        IF s[i] # NA THEN s[i]
        ELSE LET before == {j \in 1..(i - 1) : s[j] # NA}
                 after  == {j \in (i + 1)..Len(s) : s[j] # NA}
             IN IF before = {} THEN NA
                ELSE LET p == SetMax(before)
                     IN IF after = {} THEN s[p]
                        ELSE LET n == SetMin(after)
                             IN s[p] + ((s[n] - s[p]) * (i - p)) \div (n - p)]

\* variant: the cells before the window is full hold 0 instead of missing
calculate_volatility_ZeroFilled(s, window) ==
    [i \in 1..Len(s) |->
        IF i < window \/ \E j \in (i - window + 1)..i : s[j] = NA THEN 0
        ELSE LET w  == [k \in 1..window |-> s[i - window + k]]
                 sq == [k \in 1..window |-> w[k] * w[k]]
             IN window * SumTo(sq, window) - SumTo(w, window) * SumTo(w, window)]

\* calculate_volatility: series.rolling(window).std().  A cell holds
\* window * (window - 1) * std^2 (the square root is not an integer); it is
\* missing until the window is full and while the window holds a missing value
calculate_volatility(s, window) ==
    [i \in 1..Len(s) |->
        IF i < window \/ \E j \in (i - window + 1)..i : s[j] = NA THEN NA
        ELSE LET w  == [k \in 1..window |-> s[i - window + k]]
                 sq == [k \in 1..window |-> w[k] * w[k]]
             IN window * SumTo(sq, window) - SumTo(w, window) * SumTo(w, window)]

\* calculate_returns: series.pct_change() * 100, in units of 0.01 percent
calculate_returns(s) ==
    [i \in 1..Len(s) |->
        IF i = 1 \/ s[i] = NA THEN NA
        ELSE IF s[i - 1] = NA \/ s[i - 1] = 0 THEN NA
        ELSE ((s[i] - s[i - 1]) * 10000) \div s[i - 1]]

\* Series.ffill(): a missing value takes the last valid value before it
FFill(s) ==
    [i \in 1..Len(s) |->
        LET before == {j \in 1..i : s[j] # NA}
        IN IF before = {} THEN NA ELSE s[SetMax(before)]]

\* calculate_returns under pandas before 3.0, where pct_change() fills
\* forward first (fill_method='pad' by default); calculate_returns above is
\* pct_change() of pandas 3.0 and later, which does not fill.  The two agree
\* on a series whose missing values all precede its first valid value.
calculate_returns_pad(s) == calculate_returns(FFill(s))

\* the derived columns analyze_timeseries adds for a base column
VolName(c) ==
    CASE c = "brent_price_usd" -> "brent_volatility_7d"
      [] c = "wti_price_usd"   -> "wti_volatility_7d"
      [] c = "btc_price_usd"   -> "btc_volatility_7d"
      [] c = "gpu_high_median" -> "gpu_high_median_volatility_7d"
      [] c = "gpu_mid_median"  -> "gpu_mid_median_volatility_7d"
      [] c = "gpu_low_median"  -> "gpu_low_median_volatility_7d"
      [] c = "ram_16gb_median" -> "ram_16gb_median_volatility_7d"
      [] c = "ram_32gb_median" -> "ram_32gb_median_volatility_7d"
      [] c = "ram_ddr4_median" -> "ram_ddr4_median_volatility_7d"
      [] c = "ram_ddr5_median" -> "ram_ddr5_median_volatility_7d"

RetName(c) ==
    CASE c = "brent_price_usd" -> "brent_returns"
      [] c = "wti_price_usd"   -> "wti_returns"
      [] c = "btc_price_usd"   -> "btc_returns"

ReturnCols == {"brent_price_usd", "wti_price_usd", "btc_price_usd"}

\* analyze_timeseries: the enriched table; NoTable when it returns None
analyze_timeseries(ts) ==
    IF ~ts.exists THEN NoTable
    ELSE LET df    == SortByDate(ts)
             base  == df.cols \ {"date"}
             ivals == [c \in base |-> IF IsPriceLike(c) THEN Interpolate(Column(df, c))
                                      ELSE Column(df, c)]
             vcols == {c \in base : IsPriceLike(c)}
             rcols == base \cap ReturnCols
             all   == df.cols \cup {VolName(c) : c \in vcols} \cup {RetName(c) : c \in rcols}
             vals  == [c \in all |->
                          IF c = "date" THEN Column(df, "date")
                          ELSE IF c \in base THEN ivals[c]
                          ELSE IF \E v \in vcols : VolName(v) = c
                          THEN calculate_volatility(ivals[CHOOSE v \in vcols : VolName(v) = c], Window)
                          ELSE calculate_returns(ivals[CHOOSE r \in rcols : RetName(r) = c])]
         IN Table(all, [i \in 1..Len(df.rows) |-> [c \in all |-> vals[c][i]]])

\* Series.shift(lag): position i takes the value of position ShiftSource(i, lag)
ShiftSource(i, lag) == i - lag

Shift(s, lag) ==
    [i \in 1..Len(s) |-> IF ShiftSource(i, lag) >= 1 THEN s[ShiftSource(i, lag)] ELSE NA]

\* positions where both series hold a value
Overlap(x, y) == {i \in 1..Len(x) : x[i] # NA /\ y[i] # NA}

NaN == [def |-> FALSE, num |-> 0, dx |-> 0, dy |-> 0]

\* the sums of the Pearson coefficient over the positions where both series
\* hold a value
PearsonSums(x, y) ==
    LET ov == Overlap(x, y)
        xs == [i \in 1..Len(x) |-> IF i \in ov THEN x[i] ELSE 0]
        ys == [i \in 1..Len(x) |-> IF i \in ov THEN y[i] ELSE 0]
    IN [n   |-> Cardinality(ov),
        sx  |-> SumTo(xs, Len(x)),
        sy  |-> SumTo(ys, Len(x)),
        sxy |-> SumTo([i \in 1..Len(x) |-> xs[i] * ys[i]], Len(x)),
        sxx |-> SumTo([i \in 1..Len(x) |-> xs[i] * xs[i]], Len(x)),
        syy |-> SumTo([i \in 1..Len(x) |-> ys[i] * ys[i]], Len(x))]

\* the coefficient num / sqrt(dx * dy) of the sums p; not-a-number with fewer
\* than 2 positions or with a constant side
PearsonOf(p) ==
    LET dx == p.n * p.sxx - p.sx * p.sx
        dy == p.n * p.syy - p.sy * p.sy
    IN IF p.n < 2 \/ dx = 0 \/ dy = 0 THEN NaN
       ELSE [def |-> TRUE, num |-> p.n * p.sxy - p.sx * p.sy, dx |-> dx, dy |-> dy]

\* variant: an undefined coefficient is coerced to 0
Corr_ZeroForUndefined(x, y) ==
    LET c == PearsonOf(PearsonSums(x, y))
    IN IF c = NaN THEN [def |-> TRUE, num |-> 0, dx |-> 1, dy |-> 1] ELSE c

\* variant: the products are not centred on the means
Corr_Uncentered(x, y) ==
    LET p == PearsonSums(x, y)
        c == PearsonOf(p)
    IN IF c = NaN THEN NaN ELSE [c EXCEPT !.num = p.n * p.sxy]

\* Series.corr(other): Pearson over the positions where both hold a value
Corr(x, y) == PearsonOf(PearsonSums(x, y))

MaxLag == 28   \* max_lag default of lagged_correlation

\* range(0, max_lag + 1, 7)
LagRange(max_lag) == {l \in 0..max_lag : l % 7 = 0}

\* lagged_correlation(s1, s2, max_lag) with window=None: one row per lag
lagged_correlation(s1, s2, max_lag) ==
    LET lags == SortedSeq(LagRange(max_lag))
    IN [k \in 1..Len(lags) |->
           [lag_days |-> lags[k],
            correlation |-> Corr(IF lags[k] = 0 THEN s1 ELSE Shift(s1, lags[k]), s2)]]

\* market_vars and risk_vars of analyze_geopolitical_correlations
MarketVarSeq == <<"brent_price_usd", "wti_price_usd", "btc_price_usd",
                  "gpu_high_median", "gpu_mid_median", "ram_ddr5_median">>

RiskVarSeq == <<"geopolitical_risk", "conflicts", "bilateral_tensions">>

\* lag 0, then `for lag in [7, 14, 28]`
SweepLags == <<0, 7, 14, 28>>

\* Series.median(): the middle of the values present, the mean of the two
\* middle ones when their number is even
Median(vals) ==
    LET p  == SelectSeq(vals, LAMBDA v : v # NA)
        n  == Len(p)
        less(x) == Cardinality({i \in 1..n : p[i] < x})
        more(x) == Cardinality({i \in 1..n : p[i] > x})
        lo == CHOOSE x \in {p[i] : i \in 1..n} : less(x) <= (n - 1) \div 2 /\ more(x) <= n \div 2
        hi == CHOOSE x \in {p[i] : i \in 1..n} : less(x) <= n \div 2 /\ more(x) <= (n - 1) \div 2
    IN IF n = 0 THEN NA ELSE (lo + hi) \div 2

\* variant: the median of the values present instead of their mean
Mean_Median(vals) == Median(vals)

\* mean of the values present (NaN when none is)
Mean(vals) ==
    LET present == {i \in 1..Len(vals) : vals[i] # NA}
        v == [i \in 1..Len(vals) |-> IF i \in present THEN vals[i] ELSE 0]
    IN IF present = {} THEN NA ELSE SumTo(v, Len(vals)) \div Cardinality(present)

\* geo.groupby('date').agg({indicator: 'mean', ...}).reset_index()
GeoAgg(geo) ==
    LET keys == SortedSeq(DatesOf(geo))
    IN Table({"date"} \cup Indicators,
             [k \in 1..Len(keys) |->
                 [c \in {"date"} \cup Indicators |->
                     IF c = "date" THEN keys[k]
                     ELSE Mean(Column(Table(geo.cols, RowsWithKey(geo.rows, "date", keys[k])), c))]])

\* the rows appended for one (risk_var, market_var) pair
PairRows(m, risk_var, market_var) ==
    [k \in 1..Len(SweepLags) |->
        [risk_indicator  |-> risk_var,
         market_variable |-> market_var,
         correlation     |-> Corr(IF SweepLags[k] = 0 THEN Column(m, risk_var)
                                  ELSE Shift(Column(m, risk_var), SweepLags[k]),
                                  Column(m, market_var)),
         lag_days        |-> SweepLags[k]]]

\* the correlations list built by the two nested loops
CorrelationRows(m) ==
    Flatten([r \in 1..Len(RiskVarSeq) |->
        IF RiskVarSeq[r] \notin m.cols THEN <<>>
        ELSE Flatten([v \in 1..Len(MarketVarSeq) |->
                 IF MarketVarSeq[v] \notin m.cols THEN <<>>
                 ELSE PairRows(m, RiskVarSeq[r], MarketVarSeq[v])])])

CorrCols == {"risk_indicator", "market_variable", "correlation", "lag_days"}

\* analyze_geopolitical_correlations: [raised, merged, corr]; corr is the
\* correlation_matrix.csv it leaves (the old file when it writes none)
analyze_geopolitical_correlations(geo, ts0, oldCorr) ==
    IF ~geo.exists \/ ~ts0.exists
    THEN [raised |-> FALSE, merged |-> NoTable, corr |-> oldCorr]
    ELSE IF ~({"gpu_high_median", "gpu_mid_median"} \subseteq ts0.cols)
    THEN [raised |-> TRUE, merged |-> NoTable, corr |-> oldCorr]     \* KeyError in dropna
    ELSE LET ts == DropAllNA(ts0, {"gpu_high_median", "gpu_mid_median"})
         IN IF IsEmpty(ts)
            THEN [raised |-> FALSE, merged |-> NoTable, corr |-> oldCorr]
            ELSE IF ~(Indicators \subseteq geo.cols)
            THEN [raised |-> TRUE, merged |-> NoTable, corr |-> oldCorr]  \* KeyError in agg
            ELSE LET m == MergeInner(ts, GeoAgg(geo), "date")
                 IN [raised |-> FALSE, merged |-> m,
                     corr |-> Table(CorrCols, CorrelationRows(m))]

\* main of correlation_analyzer.py: [raised, enriched, merged, corr];
\* analyze_geopolitical_correlations runs when analyze_timeseries returned
\* a table
AnalyzerMain(ts, geo, oldEnriched, oldCorr) ==
    IF ~ts.exists
    THEN [raised |-> FALSE, enriched |-> oldEnriched, merged |-> NoTable, corr |-> oldCorr]
    ELSE LET df == analyze_timeseries(ts)
             r  == analyze_geopolitical_correlations(geo, df, oldCorr)
         IN [raised |-> r.raised, enriched |-> df, merged |-> r.merged, corr |-> r.corr]

----------------------------------------------------------------------------
(* predictive_analyzer.py *)

\* the integer that stands for a risk value of 1.0 in the tables handed to
\* the functions of this section
RiskOne == 10 * Unit

\* a value x is held as x * Scale: percent, risk scale and mean scale
Scale == 100 * RiskOne * Unit

\* Unit times the mean of the values present (missing when none is); exact
\* for up to three values
ScaledMean(vals) ==
    LET present == {i \in 1..Len(vals) : vals[i] # NA}
        v == [i \in 1..Len(vals) |-> IF i \in present THEN vals[i] ELSE 0]
    IN IF present = {} THEN NA
       ELSE (Unit * SumTo(v, Len(vals))) \div Cardinality(present)

\* geo_df[geo_df['date'] == geo_df['date'].max()]
LatestRows(geo) ==
    SelectSeq(geo.rows, LAMBDA r : r["date"] = SetMax(DatesOf(geo)))

TailLen == 60    \* .tail(60)

\* seq.tail(n)
TailOf(seq, n) ==
    IF Len(seq) <= n THEN seq ELSE SubSeq(seq, Len(seq) - n + 1, Len(seq))

\* Series.std() of a series without missing values: [n, q] with
\* q = n * (n - 1) * std^2; the standard deviation is undefined for n < 2
SampleStd(x) ==
    [n |-> Len(x),
     q |-> Len(x) * SumTo([i \in 1..Len(x) |-> x[i] * x[i]], Len(x))
              - SumTo(x, Len(x)) * SumTo(x, Len(x))]

\* a scenario value rat / Scale + vol * btc_volatility, or not-a-number
NaNCell == [def |-> FALSE, rat |-> 0, vol |-> 0]

Cell(rat, vol) == [def |-> TRUE, rat |-> rat, vol |-> vol]

RiskPercent == 15        \* predicted_change_from_risk = current_risk * 0.15

ConflictPercent == 8     \* predicted_change_from_conflict = current_conflicts * 0.08

\* variant of the scenarios dict: the conflict level enters the prediction
Scenarios_WithConflict(current_btc, current_risk, current_conflicts, btc_volatility, forecast_date) ==
    LET change == RiskPercent * current_risk + ConflictPercent * current_conflicts
        known == current_risk # NA /\ current_conflicts # NA
        swing == known /\ btc_volatility.n >= 2 /\ current_btc # 0
    IN [exists |-> TRUE,
        current_btc |-> current_btc,
        current_risk |-> current_risk,
        current_conflicts |-> current_conflicts,
        forecast_date |-> forecast_date,
        btc_volatility |-> btc_volatility,
        base_case |-> IF known THEN Cell(current_btc * (Scale + change), 0) ELSE NaNCell,
        bull_case |-> IF swing THEN Cell(current_btc * (Scale + change), 1) ELSE NaNCell,
        bear_case |-> IF swing THEN Cell(current_btc * (Scale + change), 0 - 1) ELSE NaNCell,
        stress_scenario |-> IF known THEN Cell(current_btc * (Scale + change * 2), 0)
                            ELSE NaNCell]

\* the scenarios dict of forecast_btc_from_risk.  current_risk and
\* current_conflicts are Unit times the mean; btc_volatility is the local
\* of that name, which the bull and bear cases refer to:
\* current_btc * (1 + change + btc_volatility / current_btc) is the base
\* case plus one btc_volatility (not-a-number when current_btc is 0)
Scenarios(current_btc, current_risk, current_conflicts, btc_volatility, forecast_date) ==
    LET predicted_change_from_risk == RiskPercent * current_risk
        known == current_risk # NA
        swing == known /\ btc_volatility.n >= 2 /\ current_btc # 0
    IN [exists |-> TRUE,
        current_btc |-> current_btc,
        current_risk |-> current_risk,
        current_conflicts |-> current_conflicts,
        forecast_date |-> forecast_date,
        btc_volatility |-> btc_volatility,
        base_case |-> IF known THEN Cell(current_btc * (Scale + predicted_change_from_risk), 0)
                      ELSE NaNCell,
        bull_case |-> IF swing THEN Cell(current_btc * (Scale + predicted_change_from_risk), 1)
                      ELSE NaNCell,
        bear_case |-> IF swing
                      THEN Cell(current_btc * (Scale + predicted_change_from_risk), 0 - 1)
                      ELSE NaNCell,
        stress_scenario |-> IF known
                            THEN Cell(current_btc * (Scale + predicted_change_from_risk * 2), 0)
                            ELSE NaNCell]

\* forecast_btc_from_risk(geo_df, ts_df); [exists |-> FALSE] is None
forecast_btc_from_risk(geo_df, ts_df) ==
    LET latest_geo == Table(geo_df.cols, LatestRows(geo_df))
        recent_btc == TailOf(SelectSeq(SortByDate(ts_df).rows,
                                       LAMBDA r : r["btc_price_usd"] # NA), TailLen)
        prices == [i \in 1..Len(recent_btc) |-> recent_btc[i]["btc_price_usd"]]
    IN IF recent_btc = <<>> THEN [exists |-> FALSE]
       ELSE Scenarios(prices[Len(prices)],
                      ScaledMean(Column(latest_geo, "geopolitical_risk")),
                      ScaledMean(Column(latest_geo, "conflicts")),
                      SampleStd(prices),
                      SetMax(DatesOf(geo_df)) + Timedelta(28))

CutoffDays == 30      \* cutoff = geo_df['date'].max() - timedelta(days=30)

TrendWindow == 7      \* rolling(7) and iloc[-7]

RiskTrendTenths == 3      \* risk_trend > 0.3, risk_trend < -0.3

ConflictTrendTenths == 5  \* conflict_trend > 0.5

\* recent.groupby('date').agg(mean).reset_index(): one row per date, sorted;
\* a cell is Unit times the mean
ByDate(recent) ==
    LET keys == SortedSeq(DatesOf(recent))
        group(d) == Table(recent.cols, RowsWithKey(recent.rows, "date", d))
    IN [k \in 1..Len(keys) |->
           [date |-> keys[k],
            geopolitical_risk |-> ScaledMean(Column(group(keys[k]), "geopolitical_risk")),
            conflicts |-> ScaledMean(Column(group(keys[k]), "conflicts"))]]

NoTrend == [def |-> FALSE, v |-> 0]

\* series.rolling(7).mean().iloc[-1] - series.rolling(7).mean().iloc[-7],
\* times TrendWindow; undefined when one of the two windows is not full or
\* holds a missing value
TrendOf(series) ==
    LET n == Len(series)
        full(e) == e >= TrendWindow /\ \A j \in (e - TrendWindow + 1)..e : series[j] # NA
        total(e) == SumTo([k \in 1..TrendWindow |-> series[e - TrendWindow + k]], TrendWindow)
    IN IF full(n) /\ full(n - TrendWindow + 1)
       THEN [def |-> TRUE, v |-> total(n) - total(n - TrendWindow + 1)]
       ELSE NoTrend

\* variant: a trend equal to the threshold counts as exceeding it
Exceeds_OrEqual(trend, tenths) ==
    trend.def /\ 10 * trend.v >= tenths * TrendWindow * Unit * RiskOne

\* trend > tenths / 10 (false for a not-a-number trend)
Exceeds(trend, tenths) ==
    trend.def /\ 10 * trend.v > tenths * TrendWindow * Unit * RiskOne

\* trend < -tenths / 10
Below(trend, tenths) ==
    trend.def /\ 10 * trend.v < (0 - tenths) * TrendWindow * Unit * RiskOne

\* calculate_early_warning_signals(geo_df): the signals list, with the two
\* trends it computed on the way (undefined when it computed none)
calculate_early_warning_signals(geo_df) ==
    LET cutoff  == SetMax(DatesOf(geo_df)) - Timedelta(CutoffDays)
        recent  == Table(geo_df.cols, SelectSeq(geo_df.rows, LAMBDA r : r["date"] >= cutoff))
        by_date == ByDate(recent)
        trends  == Len(by_date) > TrendWindow
        risk_trend == IF trends
                      THEN TrendOf([k \in 1..Len(by_date) |-> by_date[k].geopolitical_risk])
                      ELSE NoTrend
        conflict_trend == IF trends
                          THEN TrendOf([k \in 1..Len(by_date) |-> by_date[k].conflicts])
                          ELSE NoTrend
        high_risk == SelectSeq(LatestRows(geo_df),
                               LAMBDA r : r["geopolitical_risk"] # NA
                                          /\ r["geopolitical_risk"] > RiskOne)
    IN [risk_trend |-> risk_trend,
        conflict_trend |-> conflict_trend,
        signals |->
            (IF Exceeds(risk_trend, RiskTrendTenths)
             THEN <<[type |-> "WARNING", indicator |-> "Geopolitical Risk Rising"]>> ELSE <<>>)
            \o (IF Exceeds(conflict_trend, ConflictTrendTenths)
                THEN <<[type |-> "ALERT", indicator |-> "Conflict Escalation"]>> ELSE <<>>)
            \o (IF Below(risk_trend, RiskTrendTenths)
                THEN <<[type |-> "INFO", indicator |-> "Risk De-escalation"]>> ELSE <<>>)
            \o [k \in 1..Len(high_risk) |->
                   [type |-> "CRITICAL", indicator |-> high_risk[k]["country"]]]]

\* the names of the scenarios list of generate_stress_scenarios
StressNames == <<"Taiwan Strait Crisis", "Middle East Conflict Expansion",
                 "Argentina Economic Collapse", "Global De-escalation",
                 "China Rare Earth Export Restrictions">>

\* generate_stress_scenarios(geo_df, ts_df): five fixed scenarios
generate_stress_scenarios(geo_df, ts_df) ==
    [k \in 1..Len(StressNames) |-> [name |-> StressNames[k]]]

ForecastCols == {"current_btc", "current_risk", "current_conflicts", "forecast_date",
                 "base_case", "bull_case", "bear_case", "stress_scenario"}

\* pd.DataFrame([forecast]) if forecast else pd.DataFrame(); a bull or bear
\* cell is held with the btc_volatility it is expressed in
ForecastFrame(forecast) ==
    IF ~forecast.exists THEN EmptyFrame
    ELSE Table(ForecastCols,
               <<[c \in ForecastCols |->
                    IF c \in {"bull_case", "bear_case"}
                    THEN [cell |-> forecast[c], btc_volatility |-> forecast.btc_volatility]
                    ELSE forecast[c]]>>)

\* pd.DataFrame(list of dicts): no columns when the list is empty
ListFrame(cols, dicts) == IF dicts = <<>> THEN EmptyFrame ELSE Table(cols, dicts)

\* load_latest_data, calculate_current_risk_level and the two KeyErrors of
\* forecast_btc_from_risk: the conditions under which main raises before it
\* writes anything
PredictiveRaises(geo_df, ts_df) ==
    \/ ~geo_df.exists \/ ~ts_df.exists                \* read_csv: FileNotFoundError
    \/ ~({"geopolitical_risk", "conflicts"} \subseteq geo_df.cols)    \* KeyError
    \/ geo_df.rows = <<>>                             \* NaT.strftime: ValueError
    \/ "btc_price_usd" \notin ts_df.cols              \* KeyError
    \/ ts_df.rows = <<>>                              \* .iloc[0]: IndexError

\* main of predictive_analyzer.py: [raised, forecast, scenarios, signals],
\* the three report files as main leaves them.  plot_ok: visualize_forecast,
\* which runs after the files are written, draws and saves its figure
PredictiveMain(geo_df, ts_df, old, plot_ok) ==
    IF PredictiveRaises(geo_df, ts_df)
    THEN [raised |-> TRUE, forecast |-> old.forecast,
          scenarios |-> old.scenarios, signals |-> old.signals]
    ELSE LET forecast == forecast_btc_from_risk(geo_df, ts_df)
         IN [raised    |-> forecast.exists /\ ~plot_ok,
             forecast  |-> ForecastFrame(forecast),
             scenarios |-> ListFrame({"name"}, generate_stress_scenarios(geo_df, ts_df)),
             signals   |-> ListFrame({"type", "indicator"},
                                     calculate_early_warning_signals(geo_df).signals)]

----------------------------------------------------------------------------
(* scripts/build_gpu_time_series.py and scripts/normalize_hardware_prices.py *)

\* a title is a sequence of characters
Digits == {"0", "1", "2", "3", "4", "5", "6", "7", "8", "9"}

\* str.lower() of a character
LowerChar(ch) ==
    CASE ch = "R" -> "r"
      [] ch = "T" -> "t"
      [] ch = "X" -> "x"
      [] ch = "G" -> "g"
      [] ch = "B" -> "b"
      [] ch = "P" -> "p"
      [] ch = "A" -> "a"
      [] ch = "U" -> "u"
      [] ch = "S" -> "s"
      [] ch = "D" -> "d"
      [] ch = "E" -> "e"
      [] OTHER    -> ch

Lower(t) == [i \in 1..Len(t) |-> LowerChar(t[i])]

\* sub in s
Contains(s, sub) ==
    \E i \in 1..(Len(s) - Len(sub) + 1) : SubSeq(s, i, i + Len(sub) - 1) = sub

\* re.search(sub + '$', s)
EndsWith(s, sub) ==
    Len(s) >= Len(sub) /\ SubSeq(s, Len(s) - Len(sub) + 1, Len(s)) = sub

\* the number of digits of s from position i on, up to the first non-digit
DigitRun(s, i) ==
    LET stop == {j \in i..Len(s) : s[j] \notin Digits}
    IN IF stop = {} THEN Len(s) - i + 1 ELSE SetMin(stop) - i

\* re.search(r'(\d{lo,hi})', s): the leftmost run of at least lo digits, cut
\* after hi digits; found = FALSE when there is none
SearchDigits(s, lo, hi) ==
    LET starts == {i \in 1..Len(s) : DigitRun(s, i) >= lo}
    IN IF starts = {} THEN [found |-> FALSE, token |-> <<>>]
       ELSE LET i == SetMin(starts)
                n == IF DigitRun(s, i) > hi THEN hi ELSE DigitRun(s, i)
            IN [found |-> TRUE, token |-> SubSeq(s, i, i + n - 1)]

None == "None"

\* tier_from_title of scripts/build_gpu_time_series.py
tier_from_title(t) ==
    LET s == Lower(t)
        m == SearchDigits(s, 2, 4)
        token == IF m.found THEN m.token ELSE <<>>
    IN IF Contains(token, <<"8", "0">>) \/ Contains(token, <<"9", "0">>)
          \/ Contains(s, <<"8", "0">>) \/ Contains(s, <<"9", "0">>)
       THEN "high"
       ELSE IF Contains(token, <<"6", "0">>) \/ Contains(token, <<"7", "0">>)
               \/ Contains(s, <<"6", "0">>) \/ Contains(s, <<"7", "0">>)
       THEN "mid"
       ELSE IF Contains(token, <<"5", "0">>) \/ Contains(s, <<"5", "0">>)
       THEN "low"
       ELSE None

\* tier_from_title of normalize_gpu in scripts/normalize_hardware_prices.py:
\* the alternatives of r'8?0$|90$|80$|90', r'6?0$|70$|60$|70' and r'50$|50'
normalize_gpu_tier_from_title(t) ==
    LET m == SearchDigits(t, 3, 4)
        model == m.token
    IN IF ~m.found THEN None
       ELSE IF EndsWith(model, <<"8", "0">>) \/ EndsWith(model, <<"0">>)
               \/ EndsWith(model, <<"9", "0">>) \/ EndsWith(model, <<"8", "0">>)
               \/ Contains(model, <<"9", "0">>)
       THEN "high"
       ELSE IF EndsWith(model, <<"6", "0">>) \/ EndsWith(model, <<"0">>)
               \/ EndsWith(model, <<"7", "0">>) \/ EndsWith(model, <<"6", "0">>)
               \/ Contains(model, <<"7", "0">>)
       THEN "mid"
       ELSE IF EndsWith(model, <<"5", "0">>) \/ Contains(model, <<"5", "0">>)
       THEN "low"
       ELSE None

\* the median price of the listings of a tier (missing when it has none)
TierMedian(listings, tiers, tier) ==
    Median([i \in 1..Len(listings) |-> IF tiers[i] = tier THEN listings[i].price ELSE NA])

\* compute_medians_for_file: the tier medians of one snapshot file
compute_medians_for_file(listings) ==
    LET tiers == [i \in 1..Len(listings) |-> tier_from_title(listings[i].title)]
    IN [gpu_high_median |-> TierMedian(listings, tiers, "high"),
        gpu_mid_median  |-> TierMedian(listings, tiers, "mid"),
        gpu_low_median  |-> TierMedian(listings, tiers, "low")]

\* normalize_gpu: the tier medians of the listings of one date
normalize_gpu(listings) ==
    LET tiers == [i \in 1..Len(listings) |-> normalize_gpu_tier_from_title(listings[i].title)]
    IN [gpu_high_median |-> TierMedian(listings, tiers, "high"),
        gpu_mid_median  |-> TierMedian(listings, tiers, "mid"),
        gpu_low_median  |-> TierMedian(listings, tiers, "low")]

\* the candidate substrings, as character sequences
StrPrice == <<"p", "r", "i", "c", "e">>
StrAmount == <<"a", "m", "o", "u", "n", "t">>
StrPrecio == <<"p", "r", "e", "c", "i", "o">>
StrDollar == <<"$">>
StrPerGb == <<"$", "/", "g", "b">>

\* find_column(df, candidates) of normalize_hardware_prices.py: the outer
\* loop runs over the candidates, the inner one over the columns
RECURSIVE find_column(_, _)
find_column(cols, candidates) ==
    IF candidates = <<>> THEN None
    ELSE LET hits == {k \in 1..Len(cols) : Contains(Lower(cols[k]), Lower(Head(candidates)))}
         IN IF hits # {} THEN cols[SetMin(hits)]
            ELSE find_column(cols, Tail(candidates))

\* for c in df.columns: if n1 in c.lower() or n2 in c.lower() or ...: the
\* first column that contains any of the needles
FirstColumnWithAny(cols, needles) ==
    LET hits == {k \in 1..Len(cols) :
                    \E n \in 1..Len(needles) : Contains(Lower(cols[k]), needles[n])}
    IN IF hits = {} THEN None ELSE cols[SetMin(hits)]

\* price_col = find_column(df, ['price', 'amount', 'precio'])
PriceCandidates == <<StrPrice, StrAmount, StrPrecio>>

\* find_price_column of build_gpu_time_series.py: 'price', 'amount', '$'
GpuPriceNeedles == <<StrPrice, StrAmount, StrDollar>>

\* find_price_column of build_ram_time_series.py: 'price', '$/gb', 'amount'
RamPriceNeedles == <<StrPrice, StrPerGb, StrAmount>>

\* what the caller of a column search does with its result: without a price
\* column it logs and returns, writing no row (compute_medians_for_file) and
\* no index file (normalize_gpu, normalize_ram)
AfterColumnSearch(fn, price_col) ==
    [fn |-> fn, col |-> price_col,
     logged |-> price_col = None, produced |-> price_col # None, raised |-> FALSE]

\* a cell of a price column: a missing cell (NaN) or the text str(x) gives
NaCell == [isna |-> TRUE, text |-> <<>>]
TextCell(t) == [isna |-> FALSE, text |-> t]

\* a float, kept as the decimal mant / 10^scale without trailing zeros (exact
\* for the short decimals handled here), or the missing marker (None, np.nan)
MissingPrice == [missing |-> TRUE, mant |-> 0, scale |-> 0]

RECURSIVE Decimal(_, _)
Decimal(m, sc) ==
    IF sc > 0 /\ m % 10 = 0 THEN Decimal(m \div 10, sc - 1)
    ELSE [missing |-> FALSE, mant |-> m, scale |-> sc]

DigitSeq == <<"0", "1", "2", "3", "4", "5", "6", "7", "8", "9">>

DigitValue(ch) == (CHOOSE k \in 1..Len(DigitSeq) : DigitSeq[k] = ch) - 1

RECURSIVE DigitsToInt(_)
DigitsToInt(s) ==
    IF s = <<>> THEN 0
    ELSE 10 * DigitsToInt(SubSeq(s, 1, Len(s) - 1)) + DigitValue(s[Len(s)])

IsDigit(ch) == ch \in Digits

\* float(s) on a string of digits, '.' and '-': an optional leading sign,
\* then digits with at most one point and at least one digit; anything else
\* raises ValueError
PyFloat(s) ==
    LET neg == s # <<>> /\ Head(s) = "-"
        body == IF neg THEN Tail(s) ELSE s
        dots == {i \in 1..Len(body) : body[i] = "."}
        digits == SelectSeq(body, IsDigit)
        ok == /\ \A i \in 1..Len(body) : body[i] \in Digits \cup {"."}
              /\ Cardinality(dots) <= 1
              /\ digits # <<>>
        scale == IF dots = {} THEN 0 ELSE Len(body) - SetMin(dots)
        m == DigitsToInt(digits)
    IN IF ok THEN [raised |-> FALSE, value |-> Decimal(IF neg THEN 0 - m ELSE m, scale)]
       ELSE [raised |-> TRUE, value |-> MissingPrice]

\* r'[\$€£¥]|USD|EUR|GBP|\s+USD|\s+EUR' with re.I
CurrencySymbols == {"$", "€", "£", "¥"}
CurrencyWords == {<<"u", "s", "d">>, <<"e", "u", "r">>, <<"g", "b", "p">>}
SpacedCurrencyWords == {<<"u", "s", "d">>, <<"e", "u", "r">>}

\* the number of whitespace characters s starts with
SpaceRun(s) ==
    LET stop == {j \in 1..Len(s) : s[j] # " "}
    IN IF stop = {} THEN Len(s) ELSE SetMin(stop) - 1

\* re.sub(currency pattern, '', s, flags=re.I): scanning from the left, the
\* alternatives are tried in their order at each position
RECURSIVE SubCurrency(_)
SubCurrency(s) ==
    IF s = <<>> THEN <<>>
    ELSE IF Head(s) \in CurrencySymbols THEN SubCurrency(Tail(s))
    ELSE IF Len(s) >= 3 /\ Lower(SubSeq(s, 1, 3)) \in CurrencyWords
         THEN SubCurrency(SubSeq(s, 4, Len(s)))
    ELSE LET n == SpaceRun(s)
         IN IF n > 0 /\ Len(s) >= n + 3
                     /\ Lower(SubSeq(s, n + 1, n + 3)) \in SpacedCurrencyWords
            THEN SubCurrency(SubSeq(s, n + 4, Len(s)))
            ELSE <<Head(s)>> \o SubCurrency(Tail(s))

\* re.sub(r"[^0-9.,-]", "", s)
IsNumericChar(ch) == ch \in Digits \cup {".", ",", "-"}
SubNonNumeric(s) == SelectSeq(s, IsNumericChar)

\* s.replace(',', '')
IsNotComma(ch) == ch # ","
RemoveCommas(s) == SelectSeq(s, IsNotComma)

\* variant of parse_price that keeps the commas
parse_price_KeepCommas(x) ==
    IF x.isna THEN [raised |-> FALSE, value |-> MissingPrice]
    ELSE LET s == SubNonNumeric(SubCurrency(x.text))
         IN IF s = <<>> THEN [raised |-> FALSE, value |-> MissingPrice]
            ELSE [raised |-> FALSE, value |-> PyFloat(s).value]

\* parse_price(x) of normalize_hardware_prices.py, build_gpu_time_series.py
\* and build_ram_time_series.py (the same body; None or np.nan for missing):
\* the ValueError of float() is caught and gives the missing marker
parse_price(x) ==
    IF x.isna THEN [raised |-> FALSE, value |-> MissingPrice]
    ELSE LET s == SubNonNumeric(SubCurrency(x.text))
         IN IF s = <<>> THEN [raised |-> FALSE, value |-> MissingPrice]
            ELSE [raised |-> FALSE, value |-> PyFloat(RemoveCommas(s)).value]

----------------------------------------------------------------------------
(* main.py and the state machine *)

\* SCRIPTS, in the order main starts them
StageSeq == <<"unifier", "analyzer", "visualizer", "mineral", "regional",
              "predictive", "insights", "dashboard">>

\* variant: only a failure of the unifier halts the pipeline
CriticalStages_UnifierOnly == {"unifier"}

\* the stages whose failure halts the pipeline (main returns 1)
CriticalStages == {"unifier", "analyzer", "visualizer"}

StageIndex(st) == CHOOSE i \in 1..Len(StageSeq) : StageSeq[i] = st

\* variant: main goes on to the next stage whatever the result
AfterStage_NeverHalts(st, ok) ==
    IF StageIndex(st) = Len(StageSeq) THEN "done" ELSE StageSeq[StageIndex(st) + 1]

\* where main goes after stage st finished with result ok
AfterStage(st, ok) ==
    IF ~ok /\ st \in CriticalStages THEN "done"
    ELSE IF StageIndex(st) = Len(StageSeq) THEN "done"
    ELSE StageSeq[StageIndex(st) + 1]

ExitAfter(st, ok) ==
    IF ~ok /\ st \in CriticalStages THEN 1
    ELSE IF StageIndex(st) = Len(StageSeq) THEN 0
    ELSE 0 - 1

BrentShapes == {"absent", "full", "gap", "dup", "baddate"}
WtiShapes   == {"absent", "full", "dup"}
GpuShapes   == {"absent", "full", "late", "baddate"}
RamShapes   == {"absent", "full"}
BtcShapes   == {"absent", "full", "dup", "short", "intraday"}

\* which risk files exist, and the days they list
GeoConfigs ==
    {[ind \in Indicators |-> sh] : sh \in {"full", "gap", "short", "absent"}}
    \cup {[ind \in Indicators |-> IF ind = x THEN "absent" ELSE "full"] :
             x \in {"geopolitical_risk", "trade_policy_uncertainty"}}

NoCall == [s1 |-> <<>>, s2 |-> <<>>]

\* none of the three report files exists
NoReports == [forecast |-> NoTable, scenarios |-> NoTable, signals |-> NoTable]

\* no direct call of another function is under way
NoArgs == [fn |-> "none"]

NoResult == [fn |-> "none"]

Init ==
    /\ \E sb \in BrentShapes, sw \in WtiShapes, sg \in GpuShapes,
          sr \in RamShapes, sc \in BtcShapes, geo \in GeoConfigs :
          files = [n \in FileNames |->
                      CASE n = "brent" -> MarketFile(n, sb)
                        [] n = "wti"   -> MarketFile(n, sw)
                        [] n = "gpu"   -> MarketFile(n, sg)
                        [] n = "ram"   -> MarketFile(n, sr)
                        [] n = "btc"   -> MarketFile(n, sc)
                        [] OTHER       -> RiskFile(n, geo[n])]
    /\ unified = NoTable
    /\ geoNorm = NoTable
    /\ enriched = NoTable
    /\ merged = NoTable
    /\ corrMatrix = NoTable
    /\ reports = NoReports
    /\ pc = "unifier"
    /\ started = <<>>
    /\ lastOk = "none"
    /\ exitCode = 0 - 1
    /\ lcIn = NoCall
    /\ lcOut = <<>>
    /\ callIn = NoArgs
    /\ callOut = NoResult

\* run_script('Data Unifier'): data_unifier.main
RunUnifier ==
    /\ pc = "unifier"
    /\ \E r \in {UnifierMain(files, unified, geoNorm)} :
          /\ unified' = r.unified
          /\ geoNorm' = r.geoNorm
          /\ lastOk' = IF r.raised THEN "failed" ELSE "ok"
          /\ pc' = AfterStage("unifier", ~r.raised)
          /\ exitCode' = ExitAfter("unifier", ~r.raised)
    /\ started' = Append(started, "unifier")
    /\ UNCHANGED <<files, enriched, merged, corrMatrix, reports, lcIn, lcOut, callIn, callOut>>

\* run_script('Correlation Analyzer'), first half: analyze_timeseries
AnalyzeTimeseries ==
    /\ pc = "analyzer"
    /\ started' = Append(started, "analyzer")
    /\ IF unified.exists
       THEN /\ enriched' = analyze_timeseries(unified)
            /\ pc' = "analyzer_geo"
            /\ lastOk' = lastOk
       ELSE /\ enriched' = enriched
            /\ pc' = AfterStage("analyzer", TRUE)
            /\ lastOk' = "ok"
    /\ UNCHANGED <<files, unified, geoNorm, merged, corrMatrix, reports, exitCode, lcIn, lcOut, callIn, callOut>>

\* second half: analyze_geopolitical_correlations, then the script exits
AnalyzeGeopoliticalCorrelations ==
    /\ pc = "analyzer_geo"
    /\ \E r \in {analyze_geopolitical_correlations(geoNorm, enriched, corrMatrix)} :
          /\ merged' = r.merged
          /\ corrMatrix' = r.corr
          /\ lastOk' = IF r.raised THEN "failed" ELSE "ok"
          /\ pc' = AfterStage("analyzer", ~r.raised)
          /\ exitCode' = ExitAfter("analyzer", ~r.raised)
    /\ UNCHANGED <<files, unified, geoNorm, enriched, reports, started, lcIn, lcOut, callIn, callOut>>

\* run_script('Predictive Analyzer'): predictive_analyzer.main
RunPredictive ==
    /\ pc = "predictive"
    /\ \E plot_ok \in BOOLEAN :
       \E r \in {PredictiveMain(geoNorm, enriched, reports, plot_ok)} :
          /\ reports' = [forecast |-> r.forecast, scenarios |-> r.scenarios,
                         signals |-> r.signals]
          /\ lastOk' = IF r.raised THEN "failed" ELSE "ok"
          /\ pc' = AfterStage("predictive", ~r.raised)
          /\ exitCode' = ExitAfter("predictive", ~r.raised)
    /\ started' = Append(started, "predictive")
    /\ UNCHANGED <<files, unified, geoNorm, enriched, merged, corrMatrix, lcIn, lcOut, callIn, callOut>>

\* run_script of another later stage; its script succeeds or fails
RunStage(st) ==
    /\ pc = st
    /\ st \notin {"unifier", "analyzer", "predictive"}
    /\ \E ok \in BOOLEAN :
          /\ lastOk' = IF ok THEN "ok" ELSE "failed"
          /\ pc' = AfterStage(st, ok)
          /\ exitCode' = ExitAfter(st, ok)
    /\ started' = Append(started, st)
    /\ UNCHANGED <<files, unified, geoNorm, enriched, merged, corrMatrix, reports, lcIn, lcOut, callIn, callOut>>

RunLaterStage == \E i \in 3..Len(StageSeq) : RunStage(StageSeq[i])

Next ==
    \/ RunUnifier
    \/ AnalyzeTimeseries
    \/ AnalyzeGeopoliticalCorrelations
    \/ RunPredictive
    \/ RunLaterStage

Spec == Init /\ [][Next]_vars

\* main.py on a smaller choice of input files
MainBrent == {"absent", "full", "gap", "baddate"}
MainGpu == {"absent", "full", "late"}
MainBtc == {"absent", "full", "intraday"}

InitMain ==
    /\ \E sb \in MainBrent, sg \in MainGpu, sc \in MainBtc, geo \in GeoConfigs :
          files = [n \in FileNames |->
                      CASE n = "brent" -> MarketFile(n, sb)
                        [] n = "wti"   -> MarketFile(n, "full")
                        [] n = "gpu"   -> MarketFile(n, sg)
                        [] n = "ram"   -> MarketFile(n, "full")
                        [] n = "btc"   -> MarketFile(n, sc)
                        [] OTHER       -> RiskFile(n, geo[n])]
    /\ unified = NoTable
    /\ geoNorm = NoTable
    /\ enriched = NoTable
    /\ merged = NoTable
    /\ corrMatrix = NoTable
    /\ reports = NoReports
    /\ pc = "unifier"
    /\ started = <<>>
    /\ lastOk = "none"
    /\ exitCode = 0 - 1
    /\ lcIn = NoCall
    /\ lcOut = <<>>
    /\ callIn = NoArgs
    /\ callOut = NoResult

SpecMain == InitMain /\ [][Next]_vars

----------------------------------------------------------------------------
(* Direct calls of lagged_correlation(s1, s2) *)

MaxLen == 8    \* longest series handed to lagged_correlation

SeriesValues == {NA, 1, 2}

SeriesUpTo(n) == UNION {[1..k -> SeriesValues] : k \in 0..n}

Reverse(s) == [i \in 1..Len(s) |-> s[Len(s) + 1 - i]]

InitLC ==
    /\ \E s \in SeriesUpTo(MaxLen) : \E t \in {s, Reverse(s)} :
          lcIn = [s1 |-> s, s2 |-> t]
    /\ lcOut = <<>>
    /\ callIn = NoArgs
    /\ callOut = NoResult
    /\ files = [n \in FileNames |-> NoTable]
    /\ unified = NoTable
    /\ geoNorm = NoTable
    /\ enriched = NoTable
    /\ merged = NoTable
    /\ corrMatrix = NoTable
    /\ reports = NoReports
    /\ pc = "call"
    /\ started = <<>>
    /\ lastOk = "none"
    /\ exitCode = 0 - 1

CallLaggedCorrelation ==
    /\ pc = "call"
    /\ lcOut' = lagged_correlation(lcIn.s1, lcIn.s2, MaxLag)
    /\ pc' = "returned"
    /\ UNCHANGED <<files, unified, geoNorm, enriched, merged, corrMatrix, reports,
                   started, lastOk, exitCode, lcIn, callIn, callOut>>

NextLC == CallLaggedCorrelation

SpecLC == InitLC /\ [][NextLC]_vars

\* the pipeline variables of a run in which only a function is called
PipelineIdle ==
    /\ files = [n \in FileNames |-> NoTable]
    /\ unified = NoTable
    /\ geoNorm = NoTable
    /\ enriched = NoTable
    /\ merged = NoTable
    /\ corrMatrix = NoTable
    /\ reports = NoReports
    /\ started = <<>>
    /\ lastOk = "none"
    /\ exitCode = 0 - 1
    /\ lcIn = NoCall
    /\ lcOut = <<>>

PipelineVars == <<files, unified, geoNorm, enriched, merged, corrMatrix, reports,
                  started, lastOk, exitCode, lcIn, lcOut>>

----------------------------------------------------------------------------
(* Direct calls of calculate_volatility(series) and calculate_returns(series) *)

InitTS ==
    /\ \E s \in SeriesUpTo(MaxLen) : callIn = [fn |-> "series", s |-> s]
    /\ callOut = NoResult
    /\ pc = "call"
    /\ PipelineIdle

CallCalculateVolatility ==
    /\ pc = "call"
    /\ callIn.fn = "series"
    /\ callOut' = [fn |-> "calculate_volatility",
                   out |-> calculate_volatility(callIn.s, Window)]
    /\ pc' = "returned"
    /\ UNCHANGED <<callIn, PipelineVars>>

\* the installed pandas is older than 3.0 (pad) or not
CallCalculateReturns ==
    /\ pc = "call"
    /\ callIn.fn = "series"
    /\ \E pad \in BOOLEAN :
          callOut' = [fn |-> "calculate_returns", pad |-> pad,
                      out |-> IF pad THEN calculate_returns_pad(callIn.s)
                              ELSE calculate_returns(callIn.s)]
    /\ pc' = "returned"
    /\ UNCHANGED <<callIn, PipelineVars>>

NextTS ==
    \/ CallCalculateVolatility
    \/ CallCalculateReturns

SpecTS == InitTS /\ [][NextTS]_vars

----------------------------------------------------------------------------
(* Direct calls of forecast_btc_from_risk(geo_df, ts_df) *)

MaxObs == 3      \* length of the short market tables handed to the forecast

RiskCols == {"date", "country", "geopolitical_risk", "conflicts"}

\* a per-country risk table of two dates, rows in country order: the earlier
\* date carries fixed values, the latest date the values risk[c] and conf[c]
ForecastGeo(risk, conf) ==
    Table(RiskCols,
          Flatten([ci \in 1..Len(CountrySeq) |->
              <<[c \in RiskCols |->
                    CASE c = "date"              -> Midnight(1)
                      [] c = "country"           -> CountrySeq[ci]
                      [] c = "geopolitical_risk" -> 2 * RiskOne
                      [] OTHER                   -> RiskOne],
                [c \in RiskCols |->
                    CASE c = "date"              -> Midnight(2)
                      [] c = "country"           -> CountrySeq[ci]
                      [] c = "geopolitical_risk" -> risk[CountrySeq[ci]]
                      [] OTHER                   -> conf[CountrySeq[ci]]]>>]))

LatestRisks == [Countries -> {NA, 0, RiskOne \div 2, RiskOne}]

LatestConflicts ==
    {[c \in Countries |-> 0],
     [c \in Countries |-> RiskOne * CountryIndex(c)],
     [c \in Countries |-> IF c = "USA" THEN NA ELSE RiskOne \div 2]}

\* a market table with one row per day 1..Len(prices), in date order
PriceTable(prices) ==
    Table({"date", "btc_price_usd"},
          [i \in 1..Len(prices) |-> [date |-> Midnight(i), btc_price_usd |-> prices[i]]])

\* a market table longer than the tail the forecast looks at; its first two
\* prices lie far from the later ones
LongPrices == [i \in 1..(TailLen + 2) |-> IF i <= 2 THEN 90 ELSE 10 + (i % 3)]

ForecastTables ==
    {PriceTable(x) : x \in UNION {[1..k -> {NA, 10, 20}] : k \in 0..MaxObs}}
    \cup {PriceTable(LongPrices)}
    \cup {Table({"date", "btc_price_usd"},
                Reverse(PriceTable(<<10, 20, NA>>).rows))}

InitFC ==
    /\ \E risk \in LatestRisks, conf \in LatestConflicts, ts \in ForecastTables :
          callIn = [fn |-> "forecast", geo_df |-> ForecastGeo(risk, conf), ts_df |-> ts]
    /\ callOut = NoResult
    /\ pc = "call"
    /\ PipelineIdle

CallForecastBtcFromRisk ==
    /\ pc = "call"
    /\ callIn.fn = "forecast"
    /\ callOut' = [fn |-> "forecast_btc_from_risk",
                   out |-> forecast_btc_from_risk(callIn.geo_df, callIn.ts_df)]
    /\ pc' = "returned"
    /\ UNCHANGED <<callIn, PipelineVars>>

NextFC == CallForecastBtcFromRisk

SpecFC == InitFC /\ [][NextFC]_vars

----------------------------------------------------------------------------
(* Direct calls of calculate_early_warning_signals(geo_df) *)

MaxDates == 14    \* most consecutive days in a table handed to the detector

\* the numbers of consecutive days: one, a window, one more, the fewest with
\* two full windows 6 rows apart, and the most
DateCounts == {1, TrendWindow, TrendWindow + 1, 2 * TrendWindow - 1, MaxDates}

RiskSlopes == {0 - 4, 0 - 3, 0, 3, 4}   \* change of the risk level per day

ConflictSlopes == {0, 5, 6}             \* change of the conflict level per day

OldGap == CutoffDays + 10               \* days between the old row and the recent days

\* what the latest row of a country holds instead of the level of the day
LatestOverrides ==
    {[c \in Countries |-> IF c = "Atlantis" THEN a ELSE IF c = "USA" THEN u ELSE "keep"] :
        a \in {"keep", "na", "0.95", "1.0", "1.2"},
        u \in {"keep", "na", "0.95", "1.0", "1.2"}}

OverrideValue(ov, level) ==
    CASE ov = "keep" -> level
      [] ov = "na"   -> NA
      [] ov = "0.95" -> (95 * RiskOne) \div 100
      [] ov = "1.0"  -> RiskOne
      [] ov = "1.2"  -> (12 * RiskOne) \div 10

\* a per-country table of n consecutive days, rows in country order; every
\* country follows the level of the day, except at the latest day where ov
\* applies; with old = TRUE each country has one more row, OldGap days
\* before, far from the recent levels
WarningGeo(n, dr, dc, ov, old) ==
    LET level(k)    == 4 * MaxDates + dr * k
        conflict(k) == 6 * MaxDates + dc * k
        row(ci, k) ==
            [c \in RiskCols |->
                CASE c = "date"              -> Midnight(OldGap + k)
                  [] c = "country"           -> CountrySeq[ci]
                  [] c = "geopolitical_risk" ->
                         IF k = n THEN OverrideValue(ov[CountrySeq[ci]], level(k))
                         ELSE level(k)
                  [] OTHER                   -> conflict(k)]
        oldRow(ci) ==
            [c \in RiskCols |->
                CASE c = "date"              -> Midnight(1)
                  [] c = "country"           -> CountrySeq[ci]
                  [] c = "geopolitical_risk" -> 0
                  [] OTHER                   -> 50 * MaxDates]
    IN Table(RiskCols,
             Flatten([ci \in 1..Len(CountrySeq) |->
                 (IF old THEN <<oldRow(ci)>> ELSE <<>>) \o [k \in 1..n |-> row(ci, k)]]))

InitEW ==
    /\ \E n \in DateCounts, dr \in RiskSlopes, dc \in ConflictSlopes,
          ov \in LatestOverrides, old \in BOOLEAN :
          callIn = [fn |-> "warnings", geo_df |-> WarningGeo(n, dr, dc, ov, old)]
    /\ callOut = NoResult
    /\ pc = "call"
    /\ PipelineIdle

CallCalculateEarlyWarningSignals ==
    /\ pc = "call"
    /\ callIn.fn = "warnings"
    /\ callOut' = [fn |-> "calculate_early_warning_signals",
                   out |-> calculate_early_warning_signals(callIn.geo_df)]
    /\ pc' = "returned"
    /\ UNCHANGED <<callIn, PipelineVars>>

NextEW == CallCalculateEarlyWarningSignals

SpecEW == InitEW /\ [][NextEW]_vars

----------------------------------------------------------------------------
(* Direct calls of the two tier classifiers on a file of listings *)

MaxDigits == 4    \* most digits in the number of a generated title

TitleDigits == {"0", "3", "5", "6", "8", "9"}

TitlePrefixes == {<<>>, <<"R", "T", "X", " ">>}

TitleSuffixes == {<<>>, <<" ", "T", "i">>, <<" ", "1", "6", "G", "B">>}

\* prefix, a number of up to MaxDigits digits, suffix
Titles ==
    {p \o d \o x : p \in TitlePrefixes,
                   d \in UNION {[1..k -> TitleDigits] : k \in 0..MaxDigits},
                   x \in TitleSuffixes}

Rtx3080 == <<"R", "T", "X", " ", "3", "0", "8", "0">>

Rtx3060 == <<"R", "T", "X", " ", "3", "0", "6", "0">>

\* a snapshot of three listings: the generated title and the two cards
ListingFile(t) ==
    <<[title |-> t, price |-> 10 * Unit],
      [title |-> Rtx3080, price |-> 30 * Unit],
      [title |-> Rtx3060, price |-> 50 * Unit]>>

InitTier ==
    /\ \E t \in Titles : callIn = [fn |-> "listings", file |-> ListingFile(t)]
    /\ callOut = NoResult
    /\ pc = "call"
    /\ PipelineIdle

\* scripts/build_gpu_time_series.py on the file
CallComputeMediansForFile ==
    /\ pc = "call"
    /\ callIn.fn = "listings"
    /\ callOut' = [fn |-> "tier_from_title",
                   script |-> "build_gpu_time_series",
                   tier |-> tier_from_title(callIn.file[1].title),
                   medians |-> compute_medians_for_file(callIn.file),
                   others |-> compute_medians_for_file(Tail(callIn.file))]
    /\ pc' = "returned"
    /\ UNCHANGED <<callIn, PipelineVars>>

\* scripts/normalize_hardware_prices.py on the file
CallNormalizeGpu ==
    /\ pc = "call"
    /\ callIn.fn = "listings"
    /\ callOut' = [fn |-> "tier_from_title",
                   script |-> "normalize_hardware_prices",
                   tier |-> normalize_gpu_tier_from_title(callIn.file[1].title),
                   medians |-> normalize_gpu(callIn.file),
                   others |-> normalize_gpu(Tail(callIn.file))]
    /\ pc' = "returned"
    /\ UNCHANGED <<callIn, PipelineVars>>

NextTier ==
    \/ CallComputeMediansForFile
    \/ CallNormalizeGpu

SpecTier == InitTier /\ [][NextTier]_vars

----------------------------------------------------------------------------
(* Direct calls of the column searches on the header of a listings file *)

MaxCols == 3    \* most columns of a generated header

ColumnNames == {<<"T", "i", "t", "l", "e">>,
                <<"P", "r", "i", "c", "e">>,
                <<"A", "m", "o", "u", "n", "t">>,
                <<"$", "/", "G", "B">>,
                <<"U", "S", "D">>}

\* the headers: up to MaxCols different column names in any order
Headers ==
    {h \in UNION {[1..k -> ColumnNames] : k \in 0..MaxCols} :
        \A i, j \in 1..Len(h) : i # j => h[i] # h[j]}

InitCols ==
    /\ \E h \in Headers : callIn = [fn |-> "header", cols |-> h]
    /\ callOut = NoResult
    /\ pc = "call"
    /\ PipelineIdle

\* normalize_gpu / normalize_ram up to the price column
CallFindColumn ==
    /\ pc = "call"
    /\ callIn.fn = "header"
    /\ callOut' = AfterColumnSearch("find_column", find_column(callIn.cols, PriceCandidates))
    /\ pc' = "returned"
    /\ UNCHANGED <<callIn, PipelineVars>>

\* compute_medians_for_file of build_gpu_time_series.py up to the price column
CallGpuFindPriceColumn ==
    /\ pc = "call"
    /\ callIn.fn = "header"
    /\ callOut' = AfterColumnSearch("gpu_find_price_column",
                                    FirstColumnWithAny(callIn.cols, GpuPriceNeedles))
    /\ pc' = "returned"
    /\ UNCHANGED <<callIn, PipelineVars>>

\* compute_medians_for_file of build_ram_time_series.py up to the price column
CallRamFindPriceColumn ==
    /\ pc = "call"
    /\ callIn.fn = "header"
    /\ callOut' = AfterColumnSearch("ram_find_price_column",
                                    FirstColumnWithAny(callIn.cols, RamPriceNeedles))
    /\ pc' = "returned"
    /\ UNCHANGED <<callIn, PipelineVars>>

NextCols ==
    \/ CallFindColumn
    \/ CallGpuFindPriceColumn
    \/ CallRamFindPriceColumn

SpecCols == InitCols /\ [][NextCols]_vars

----------------------------------------------------------------------------
(* Direct calls of parse_price on price cells *)

MaxCell == 4    \* most characters of the numeric part of a generated cell

CellChars == {"1", "0", ".", ",", "-"}

CellPrefixes == {<<>>, <<"$">>, <<"E", "U", "R", " ">>}

CellSuffixes == {<<>>, <<" ", "U", "S", "D">>, <<" ", "u", "s", "d">>, <<"G", "B">>}

\* "$1,299.99 USD"
ExampleCell ==
    TextCell(<<"$", "1", ",", "2", "9", "9", ".", "9", "9", " ", "U", "S", "D">>)

\* the cells: a missing one, the example, and prefix + numeric part + suffix
PriceCells ==
    {NaCell, ExampleCell} \cup
    {TextCell(p \o b \o q) :
        p \in CellPrefixes,
        b \in UNION {[1..k -> CellChars] : k \in 0..MaxCell},
        q \in CellSuffixes}

PriceScripts == {"normalize_hardware_prices", "build_gpu_time_series", "build_ram_time_series"}

InitPrice ==
    /\ \E x \in PriceCells : callIn = [fn |-> "cell", cell |-> x]
    /\ callOut = NoResult
    /\ pc = "call"
    /\ PipelineIdle

\* df[price_col].apply(parse_price) on one cell, in one of the three scripts
CallParsePrice ==
    /\ pc = "call"
    /\ callIn.fn = "cell"
    /\ \E script \in PriceScripts :
          LET r == parse_price(callIn.cell)
          IN callOut' = [fn |-> "parse_price", script |-> script,
                         value |-> r.value, raised |-> r.raised]
    /\ pc' = "returned"
    /\ UNCHANGED <<callIn, PipelineVars>>

NextPrice == CallParsePrice

SpecPrice == InitPrice /\ [][NextPrice]_vars

----------------------------------------------------------------------------
(* The three table-writing scripts run one after the other, twice, on the *)
(* same input files                                                        *)

Runs == 2

\* the tables the three scripts leave on disk
Outputs == [unified |-> unified, geoNorm |-> geoNorm, enriched |-> enriched,
            corrMatrix |-> corrMatrix, reports |-> reports]

InitRerun ==
    /\ \E sb \in MainBrent, sg \in MainGpu, sc \in MainBtc, geo \in GeoConfigs :
          files = [n \in FileNames |->
                      CASE n = "brent" -> MarketFile(n, sb)
                        [] n = "wti"   -> MarketFile(n, "full")
                        [] n = "gpu"   -> MarketFile(n, sg)
                        [] n = "ram"   -> MarketFile(n, "full")
                        [] n = "btc"   -> MarketFile(n, sc)
                        [] OTHER       -> RiskFile(n, geo[n])]
    /\ unified = NoTable
    /\ geoNorm = NoTable
    /\ enriched = NoTable
    /\ merged = NoTable
    /\ corrMatrix = NoTable
    /\ reports = NoReports
    /\ pc = "script_unifier"
    /\ started = <<>>
    /\ lastOk = "none"
    /\ exitCode = 0 - 1
    /\ lcIn = NoCall
    /\ lcOut = <<>>
    /\ callIn = [fn |-> "rerun", run |-> 1]
    /\ callOut = NoResult

\* python src/data_unifier.py
ScriptUnifier ==
    /\ pc = "script_unifier"
    /\ \E r \in {UnifierMain(files, unified, geoNorm)} :
          /\ unified' = r.unified
          /\ geoNorm' = r.geoNorm
          /\ lastOk' = IF r.raised THEN "failed" ELSE "ok"
    /\ started' = Append(started, "unifier")
    /\ pc' = "script_analyzer"
    /\ UNCHANGED <<files, enriched, merged, corrMatrix, reports, exitCode,
                   lcIn, lcOut, callIn, callOut>>

\* python src/correlation_analyzer.py
ScriptAnalyzer ==
    /\ pc = "script_analyzer"
    /\ \E r \in {AnalyzerMain(unified, geoNorm, enriched, corrMatrix)} :
          /\ enriched' = r.enriched
          /\ merged' = r.merged
          /\ corrMatrix' = r.corr
          /\ lastOk' = IF r.raised THEN "failed" ELSE "ok"
    /\ started' = Append(started, "analyzer")
    /\ pc' = "script_predictive"
    /\ UNCHANGED <<files, unified, geoNorm, reports, exitCode, lcIn, lcOut, callIn, callOut>>

\* python src/predictive_analyzer.py; after it the run is over
ScriptPredictive ==
    /\ pc = "script_predictive"
    /\ \E plot_ok \in BOOLEAN :
       \E r \in {PredictiveMain(geoNorm, enriched, reports, plot_ok)} :
          /\ reports' = [forecast |-> r.forecast, scenarios |-> r.scenarios,
                         signals |-> r.signals]
          /\ lastOk' = IF r.raised THEN "failed" ELSE "ok"
    /\ started' = Append(started, "predictive")
    /\ pc' = "run_over"
    /\ UNCHANGED <<files, unified, geoNorm, enriched, merged, corrMatrix, exitCode,
                   lcIn, lcOut, callIn, callOut>>

\* the same three scripts are started again on the files as they are
RunAgain ==
    /\ pc = "run_over"
    /\ callIn.run < Runs
    /\ callIn' = [callIn EXCEPT !.run = callIn.run + 1]
    /\ callOut' = [fn |-> "rerun", first |-> Outputs]
    /\ pc' = "script_unifier"
    /\ started' = <<>>
    /\ lastOk' = "none"
    /\ UNCHANGED <<files, unified, geoNorm, enriched, merged, corrMatrix, reports,
                   exitCode, lcIn, lcOut>>

NextRerun ==
    \/ ScriptUnifier
    \/ ScriptAnalyzer
    \/ ScriptPredictive
    \/ RunAgain

SpecRerun == InitRerun /\ [][NextRerun]_vars

----------------------------------------------------------------------------
(* Properties *)

RiskVars == {RiskVarSeq[i] : i \in 1..Len(RiskVarSeq)}

MarketVars == {MarketVarSeq[i] : i \in 1..Len(MarketVarSeq)}

SweepLagSet == {SweepLags[i] : i \in 1..Len(SweepLags)}

\* the rows of the correlation table for one (risk, market, lag)
CorrRowsOf(r, m, lag) ==
    {i \in 1..Len(corrMatrix.rows) :
        /\ corrMatrix.rows[i].risk_indicator = r
        /\ corrMatrix.rows[i].market_variable = m
        /\ corrMatrix.rows[i].lag_days = lag}

\* the positions of the aligned table that contribute to the lag-L
\* correlation of (r, m): shifted risk value and market value both present
Contributing(r, m, lag) ==
    Overlap(Shift(Column(merged, r), lag), Column(merged, m))

\* the correlation table was written by this run of the analyzer
TableWritten == corrMatrix.exists /\ merged.exists

\* C1: every (risk, market) pair that appears in the correlation table has
\* exactly one row for each lag of the weekly sweep 0, 7, 14, 21, 28.
C1_OneRowPerRequestedLag ==
    corrMatrix.exists =>
        \A i \in 1..Len(corrMatrix.rows) : \A lag \in LagRange(MaxLag) :
            Cardinality(CorrRowsOf(corrMatrix.rows[i].risk_indicator,
                                   corrMatrix.rows[i].market_variable, lag)) = 1

\* no date occurs on two rows of the aligned table
UniqueDates(t) == \A i, j \in 1..Len(t.rows) : i # j => t.rows[i]["date"] # t.rows[j]["date"]

C3_RiskStrictlyEarlier ==
    TableWritten =>
        \A lag \in SweepLagSet : \A r \in RiskVars \cap merged.cols :
            \A m \in MarketVars \cap merged.cols : \A i \in Contributing(r, m, lag) :
                IF lag > 0
                THEN merged.rows[ShiftSource(i, lag)]["date"] < merged.rows[i]["date"]
                ELSE merged.rows[ShiftSource(i, lag)]["date"] = merged.rows[i]["date"]

\* C4: the correlation table is dense: once written it holds a row for every
\* requested risk indicator, every requested market variable and every lag
\* the analyzer sweeps, also for a variable without data.
C4_DenseTable ==
    corrMatrix.exists =>
        \A r \in RiskVars : \A m \in MarketVars : \A lag \in SweepLagSet :
            CorrRowsOf(r, m, lag) # {}

IsOne(c) == c.def /\ c.num > 0 /\ c.num * c.num = c.dx * c.dy

Present(s) == {i \in 1..Len(s) : s[i] # NA}

SelfCall == pc = "returned" /\ lcIn.s1 = lcIn.s2

LagRow(lag) == CHOOSE k \in 1..Len(lcOut) : lcOut[k].lag_days = lag

\* C6 as stated: the lag-0 correlation of any series with at least 2
\* non-missing points with itself is 1.
C6_SelfCorrelationIsOne ==
    (SelfCall /\ Cardinality(Present(lcIn.s1)) >= 2) =>
        IsOne(lcOut[LagRow(0)].correlation)

\* C6 amended: the lag-0 correlation of a series with itself is 1 when the
\* series has at least 2 non-missing points that are not all equal, and is
\* not-a-number when its non-missing points are all equal.
C6_SelfCorrelationAmended ==
    (SelfCall /\ Cardinality(Present(lcIn.s1)) >= 2) =>
        IF \E i, j \in Present(lcIn.s1) : lcIn.s1[i] # lcIn.s1[j]
        THEN IsOne(lcOut[LagRow(0)].correlation)
        ELSE lcOut[LagRow(0)].correlation = NaN

\* a series with a missing point and two different values, correlated with itself
C6_Witness ==
    /\ SelfCall
    /\ \E i, j \in Present(lcIn.s1) : lcIn.s1[i] # lcIn.s1[j]
    /\ Present(lcIn.s1) # 1..Len(lcIn.s1)
    /\ IsOne(lcOut[LagRow(0)].correlation)

\* the loader outputs of this run
OilDf == load_oil_data(files).df
HwDf == load_hardware_data(files).df
BtcDf == load_bitcoin_data(files)

\* the state right after data_unifier.py ran and wrote the unified table
UnifierWrote == pc = "analyzer" /\ unified.exists

Permutations3 == {p \in [1..3 -> 1..3] : \A i, j \in 1..3 : i # j => p[i] # p[j]}

\* the date set of the successive outer joins of the non-empty sources src,
\* taken in the order p
DatesInOrder(src, p) ==
    LET ne  == SelectSeq([i \in 1..3 |-> src[p[i]]], LAMBDA t : ~IsEmpty(t))
    IN IF ne = <<>> THEN {} ELSE DatesOf(MergeAll(Head(ne), Tail(ne)))

\* C7: the dates of the unified table are the union of the dates of the oil,
\* hardware and crypto loader outputs, and merging the sources in any order
\* gives that same set.
C7_DateCoverage ==
    UnifierWrote =>
        LET src == <<OilDf, HwDf, BtcDf>>
        IN /\ DatesOf(unified) = DatesOf(src[1]) \cup DatesOf(src[2]) \cup DatesOf(src[3])
           /\ \A p \in Permutations3 : DatesInOrder(src, p) = DatesOf(unified)

\* the three sources list different day sets and all of them are in the table
C7_Witness ==
    /\ UnifierWrote
    /\ ~IsEmpty(OilDf) /\ ~IsEmpty(HwDf) /\ ~IsEmpty(BtcDf)
    /\ DatesOf(OilDf) # DatesOf(HwDf)
    /\ DatesOf(BtcDf) # DatesOf(HwDf)
    /\ DatesOf(BtcDf) # DatesOf(OilDf)
    /\ DatesOf(unified) = {Midnight(d) : d \in Days}

\* C8: the unified table has exactly one row per date and its rows are
\* sorted by date ascending.
C8_OneRowPerDateSorted ==
    unified.exists =>
        /\ \A i, j \in 1..Len(unified.rows) :
              i < j => unified.rows[i]["date"] < unified.rows[j]["date"]

\* C9: the unifier ends without writing the unified table exactly when the
\* oil, hardware and crypto loaders all return no data; a source with rows
\* has its columns in the written table.
C9_HaltsOnlyWithoutData ==
    (started = <<"unifier">> /\ lastOk = "ok") =>
        /\ ~unified.exists <=> (IsEmpty(OilDf) /\ IsEmpty(HwDf) /\ IsEmpty(BtcDf))
        /\ \A t \in {OilDf, HwDf, BtcDf} : ~IsEmpty(t) => t.cols \subseteq unified.cols

SourceFiles(src) ==
    CASE src = "oil"      -> {"brent", "wti"}
      [] src = "hardware" -> {"gpu", "ram"}
      [] src = "crypto"   -> {"btc"}

MarketSources == {"oil", "hardware", "crypto"}

SourceAbsent(src) == \A f \in SourceFiles(src) : ~files[f].exists

SourcePresent(src) == \A f \in SourceFiles(src) : files[f].exists

\* exactly one market source is absent, the others and the risk files are there
OneSourceAbsent ==
    /\ \E a \in MarketSources :
          /\ SourceAbsent(a)
          /\ \A b \in MarketSources \ {a} : SourcePresent(b)
    /\ \A ind \in Indicators : files[ind].exists

\* the market variables of the sources that are present
PresentMarketVars ==
    (IF SourcePresent("oil") THEN {"brent_price_usd", "wti_price_usd"} ELSE {})
    \cup (IF SourcePresent("hardware")
          THEN {"gpu_high_median", "gpu_mid_median", "ram_ddr5_median"} ELSE {})
    \cup (IF SourcePresent("crypto") THEN {"btc_price_usd"} ELSE {})

\* C10: with exactly one market source absent no stage raises, the pipeline
\* is not halted, and once the analyzer has run the correlation table holds
\* the rows of the market variables still present.
C10_OneSourceAbsentDegrades ==
    OneSourceAbsent =>
        /\ lastOk # "failed" \/ Len(started) > 2
        /\ (Len(started) >= 2 /\ pc \notin {"analyzer", "analyzer_geo"}) =>
              /\ corrMatrix.exists
              /\ \A r \in RiskVars : \A m \in PresentMarketVars :
                    \A lag \in SweepLagSet : CorrRowsOf(r, m, lag) # {}

----------------------------------------------------------------------------
(* Properties of the per-country risk table *)

\* the category of COUNTRY_TAGS a flag column stands for
CategoryOfFlag(col) ==
    CASE col = "is_geopolitical_core"  -> "geopolitical_core"
      [] col = "is_active_conflict"    -> "active_conflict"
      [] col = "is_energy_market"      -> "energy_markets"
      [] col = "is_tech_supply_chain"  -> "tech_supply_chain"
      [] col = "is_strategic_minerals" -> "strategic_minerals"
      [] col = "is_financial_systemic" -> "financial_systemic"
      [] col = "is_maritime_choke"     -> "maritime_choke_points"

\* C11: in the written per-country risk table every row carries the seven
\* category flags, and a flag is 1 exactly when the static country table
\* lists the row's country under the flag's category; a country the static
\* table does not hold has 0 in all seven.
C11_FlagsMatchStaticTable ==
    geoNorm.exists =>
        /\ TagCols \subseteq geoNorm.cols
        /\ \A i \in 1..Len(geoNorm.rows) : \A col \in TagCols :
              /\ geoNorm.rows[i][col] \in {0, 1}
              /\ geoNorm.rows[i][col] = 1 <=>
                    CategoryOfFlag(col) \in CountryTags(geoNorm.rows[i]["country"])

\* the risk indicator files this run found
PresentIndicators == {ind \in Indicators : files[ind].exists}

\* the value a risk file lists for (day, country); missing when the file
\* does not list the day
ListedValue(ind, d, c) ==
    LET f == files[ind]
        at == {k \in 1..Len(f.rows) : f.rows[k]["Date"] = d}
    IN IF at = {} THEN NA ELSE f.rows[CHOOSE k \in at : TRUE][c]

\* C12: when at least one of the five risk files is present the loader does
\* not raise, whichever file is absent; its table has one column per present
\* indicator and exactly one row for every (date, country) that holds a value
\* in some present indicator, carrying each present indicator's value.
C12_LoaderOuterJoin ==
    (started = <<"unifier">> /\ PresentIndicators # {}) =>
        LET r == load_geopolitical_data(files)
            rowsOf(d, c) == {i \in 1..Len(r.df.rows) :
                                /\ r.df.rows[i]["date"] = Midnight(d)
                                /\ r.df.rows[i]["country"] = c}
        IN /\ ~r.raised
           /\ r.df.cols = {"date", "country"} \cup PresentIndicators
           /\ \A d \in Days : \A c \in Countries :
                 IF \E ind \in PresentIndicators : ListedValue(ind, d, c) # NA
                 THEN /\ Cardinality(rowsOf(d, c)) = 1
                      /\ \A i \in rowsOf(d, c) : \A ind \in PresentIndicators :
                            r.df.rows[i][ind] = ListedValue(ind, d, c)
                 ELSE rowsOf(d, c) = {}

\* the rows of the per-country table on date d that hold a value of ind
ValuedRows(ind, d) ==
    {j \in 1..Len(geoNorm.rows) :
        geoNorm.rows[j]["date"] = d /\ geoNorm.rows[j][ind] # NA}

\* the sum of the values of ind on date d over the countries that have one
ValueSum(ind, d) ==
    SumTo([j \in 1..Len(geoNorm.rows) |->
              IF j \in ValuedRows(ind, d) THEN geoNorm.rows[j][ind] ELSE 0],
          Len(geoNorm.rows))

\* the analyzer has just written the aligned table (no later stage started;
\* the later stages do not touch it)
AnalyzerDone == merged.exists /\ Len(started) = 2

----------------------------------------------------------------------------
(* Properties of the volatility and returns columns *)

Returned(fn) == pc = "returned" /\ callOut.fn = fn

\* the window of W values that ends at position t holds no missing value
FullWindow(s, t) == t >= Window /\ \A j \in (t - Window + 1)..t : s[j] # NA

\* W * W * (sum of squared deviations from the window mean), computed from
\* the deviations W * x - sum(x)
ScaledSquaredDeviations(s, t) ==
    LET w   == [k \in 1..Window |-> s[t - Window + k]]
        tot == SumTo(w, Window)
    IN SumTo([k \in 1..Window |-> (Window * w[k] - tot) * (Window * w[k] - tot)], Window)

\* C14: with W = 7 the volatility is missing (not 0) at each of the first
\* W-1 positions; at a later position whose trailing window of W values,
\* the position included, is complete it is the sample standard deviation of
\* those values (a cell v stands for W*(W-1)*std^2, so v * W is W*W times
\* the sum of squared deviations from the window mean); a window that holds
\* a missing value has no standard deviation and the cell is missing.
C14_RollingSampleStd ==
    Returned("calculate_volatility") =>
        /\ Len(callOut.out) = Len(callIn.s)
        /\ \A t \in 1..Len(callIn.s) :
              IF FullWindow(callIn.s, t)
              THEN /\ callOut.out[t] # NA
                   /\ callOut.out[t] * Window = ScaledSquaredDeviations(callIn.s, t)
              ELSE callOut.out[t] = NA

\* a series longer than the window without missing values: the first W-1
\* cells are missing and a later one holds a positive deviation
C14_Witness ==
    /\ Returned("calculate_volatility")
    /\ Len(callIn.s) > Window
    /\ \A t \in 1..Len(callIn.s) : callIn.s[t] # NA
    /\ \A t \in 1..(Window - 1) : callOut.out[t] = NA
    /\ callOut.out[Window] > 0
    /\ callOut.out[Len(callIn.s)] > 0

\* C15: the return at position t is (v[t]/v[t-1] - 1) * 100 when v[t] and
\* v[t-1] are both present (a cell holds the return in units of 0.01 percent)
\* and is missing otherwise: at the first position, at a missing position and
\* at the first valid position after missing ones.
C15_ReturnsUndefinedAcrossGaps ==
    Returned("calculate_returns") =>
        /\ Len(callOut.out) = Len(callIn.s)
        /\ \A t \in 1..Len(callIn.s) :
              IF t > 1 /\ callIn.s[t] # NA /\ callIn.s[t - 1] # NA
              THEN callOut.out[t] * callIn.s[t - 1]
                      = (callIn.s[t] - callIn.s[t - 1]) * 100 * 100
              ELSE callOut.out[t] = NA

----------------------------------------------------------------------------
(* Properties of the forecast *)

\* the countries' latest risk readings that are present (rows of geo_df)
LatestRiskRows ==
    {j \in 1..Len(callIn.geo_df.rows) :
        /\ callIn.geo_df.rows[j]["date"] = SetMax(DatesOf(callIn.geo_df))
        /\ callIn.geo_df.rows[j]["geopolitical_risk"] # NA}

LatestRiskSum ==
    SumTo([j \in 1..Len(callIn.geo_df.rows) |->
              IF j \in LatestRiskRows THEN callIn.geo_df.rows[j]["geopolitical_risk"] ELSE 0],
          Len(callIn.geo_df.rows))

\* the dates of the market table that carry a price
PricedDates ==
    {callIn.ts_df.rows[i]["date"] :
        i \in {k \in 1..Len(callIn.ts_df.rows) : callIn.ts_df.rows[k]["btc_price_usd"] # NA}}

\* the most recent TailLen of them
RecentDates == {d \in PricedDates : Cardinality({e \in PricedDates : e > d}) < TailLen}

PriceOn(d) ==
    callIn.ts_df.rows[CHOOSE i \in 1..Len(callIn.ts_df.rows) :
                          callIn.ts_df.rows[i]["date"] = d]["btc_price_usd"]

\* n * n * (sum of squared deviations of the recent prices from their mean)
RecentSquaredDeviations ==
    LET ds  == SortedSeq(RecentDates)
        n   == Len(ds)
        tot == SumTo([k \in 1..n |-> PriceOn(ds[k])], n)
    IN SumTo([k \in 1..n |-> (n * PriceOn(ds[k]) - tot) * (n * PriceOn(ds[k]) - tot)], n)

\* the cell holds c * (1 + times * 0.15 * r) for r the mean of the latest
\* risk readings, sum / count, on the scale where 1.0 is RiskOne: a cell's rat
\* is its value times Scale = 100 * RiskOne * Unit, so
\* rat * count = c * (Scale * count + times * 15 * Unit * sum)
IsProjection(cell, c, times) ==
    /\ cell.def
    /\ cell.rat * Cardinality(LatestRiskRows)
          = c * (100 * RiskOne * Unit * Cardinality(LatestRiskRows)
                 + times * 15 * Unit * LatestRiskSum)

----------------------------------------------------------------------------
(* Properties of the early-warning signals *)

\* the signals of one type, and those naming one indicator
SignalsOf(type) ==
    {k \in 1..Len(callOut.out.signals) : callOut.out.signals[k].type = type}

CriticalsOf(country) ==
    {k \in SignalsOf("CRITICAL") : callOut.out.signals[k].indicator = country}

\* a computed trend is trend.v / (7 * Unit) on the scale where 1.0 is
\* RiskOne; it is above (below) tenths / 10
TrendAbove(trend, tenths) == trend.def /\ 10 * trend.v > tenths * 7 * Unit * RiskOne

TrendUnder(trend, tenths) == trend.def /\ 10 * trend.v < tenths * 7 * Unit * RiskOne

TrendAt(trend, tenths) == trend.def /\ 10 * trend.v = tenths * 7 * Unit * RiskOne

\* C17: a WARNING is emitted exactly when the risk trend is above +0.3, an
\* ALERT exactly when the conflict trend is above +0.5 and an INFO exactly
\* when the risk trend is below -0.3, each at most once; a trend at its
\* threshold emits nothing and WARNING and INFO never come together.
C17_TrendSignals ==
    Returned("calculate_early_warning_signals") =>
        LET rt == callOut.out.risk_trend
            ct == callOut.out.conflict_trend
        IN /\ SignalsOf("WARNING") # {} <=> TrendAbove(rt, 3)
           /\ SignalsOf("ALERT") # {} <=> TrendAbove(ct, 5)
           /\ SignalsOf("INFO") # {} <=> TrendUnder(rt, 0 - 3)
           /\ \A t \in {"WARNING", "ALERT", "INFO"} : Cardinality(SignalsOf(t)) <= 1
           /\ ~(SignalsOf("WARNING") # {} /\ SignalsOf("INFO") # {})
           /\ (TrendAt(rt, 3) \/ TrendAt(rt, 0 - 3)) =>
                 (SignalsOf("WARNING") = {} /\ SignalsOf("INFO") = {})
           /\ TrendAt(ct, 5) => SignalsOf("ALERT") = {}

\* the risk trend is exactly +0.3 and the conflict trend above +0.5: only
\* the ALERT is emitted
C17_Witness ==
    /\ Returned("calculate_early_warning_signals")
    /\ TrendAt(callOut.out.risk_trend, 3)
    /\ TrendAbove(callOut.out.conflict_trend, 5)
    /\ SignalsOf("ALERT") # {}
    /\ SignalsOf("WARNING") = {}
    /\ SignalsOf("INFO") = {}

\* the rows of a country that hold a risk value
RiskRowsOf(country) ==
    {j \in 1..Len(callIn.geo_df.rows) :
        /\ callIn.geo_df.rows[j]["country"] = country
        /\ callIn.geo_df.rows[j]["geopolitical_risk"] # NA}

\* the most recent risk value of a country (missing when it has none)
MostRecentRisk(country) ==
    IF RiskRowsOf(country) = {} THEN NA
    ELSE callIn.geo_df.rows[
             CHOOSE j \in RiskRowsOf(country) :
                 \A k \in RiskRowsOf(country) :
                     callIn.geo_df.rows[k]["date"] <= callIn.geo_df.rows[j]["date"]
         ]["geopolitical_risk"]

\* C18: for every country of the table exactly one CRITICAL signal names the
\* country when its most recent risk value is above 1.0 and none does when
\* it is not (none at 0.95, none at exactly 1.0), whatever the trends and
\* however few dates the table has.
C18_CriticalPerCountry ==
    Returned("calculate_early_warning_signals") =>
        \A c \in {callIn.geo_df.rows[j]["country"] : j \in 1..Len(callIn.geo_df.rows)} :
            IF MostRecentRisk(c) # NA /\ MostRecentRisk(c) > RiskOne
            THEN Cardinality(CriticalsOf(c)) = 1
            ELSE CriticalsOf(c) = {}

----------------------------------------------------------------------------
(* Properties of the hardware tiers *)

\* the first token of 2 to 4 digits of the classified title
ModelToken == SearchDigits(Lower(callIn.file[1].title), 2, 4)

\* C19: under either classifier a title whose first 2-4 digit token contains
\* "80" is "high", a title whose token contains "60" (and which holds neither
\* "80" nor "90") is "mid", and a title without a 2-4 digit token has no tier
\* and leaves every tier median as it is without the listing.
C19_TierFromTitle ==
    Returned("tier_from_title") =>
        /\ (ModelToken.found /\ Contains(ModelToken.token, <<"8", "0">>)) =>
              callOut.tier = "high"
        /\ (/\ ModelToken.found
            /\ Contains(ModelToken.token, <<"6", "0">>)
            /\ ~Contains(callIn.file[1].title, <<"8", "0">>)
            /\ ~Contains(callIn.file[1].title, <<"9", "0">>)) =>
              callOut.tier = "mid"
        /\ ~ModelToken.found =>
              /\ callOut.tier = None
              /\ callOut.medians = callOut.others

----------------------------------------------------------------------------
(* Properties of the crypto dates *)

\* the columns of the oil and hardware sources
OilHardwareCols ==
    {"brent_price_usd", "wti_price_usd"} \cup GpuCols \cup RamCols

\* C20: every date of the crypto loader's output is a calendar day without
\* time of day, and in the unified table a crypto observation and an oil or
\* hardware observation of the same calendar day carry the same date, the key
\* of their row.
C20_CryptoDatesAreCalendarDays ==
    started = <<"unifier">> =>
        /\ \A i \in 1..Len(BtcDf.rows) :
              BtcDf.rows[i]["date"] = Midnight(DayOf(BtcDf.rows[i]["date"]))
        /\ (unified.exists /\ "btc_price_usd" \in unified.cols) =>
              \A i, j \in 1..Len(unified.rows) :
                 (/\ unified.rows[i]["btc_price_usd"] # NA
                  /\ \E c \in OilHardwareCols \cap unified.cols : unified.rows[j][c] # NA
                  /\ DayOf(unified.rows[i]["date"]) = DayOf(unified.rows[j]["date"]))
                 => unified.rows[i]["date"] = unified.rows[j]["date"]


----------------------------------------------------------------------------
(* Properties of unparsable cells *)

\* the market files holding a date cell that is not a date
BadDateFiles == {n \in MarketFiles :
                    /\ files[n].exists
                    /\ \E i \in 1..Len(files[n].rows) :
                          files[n].rows[i][RawDateCol(n)] = BadDate}

\* the unifier has run and raised
UnifierRaised == started = <<"unifier">> /\ pc = "done" /\ exitCode = 1

\* C21: a cell that cannot be converted to a date becomes a missing value and
\* never raises: when the only defect of the input is one unparsable date cell
\* of a market file (the risk files load), neither load_oil_data nor
\* load_hardware_data raises and the unifier does not abort
C21_UnparsableCellNeverRaises ==
    (/\ started # <<>>
     /\ Cardinality(BadDateFiles) = 1
     /\ ~load_geopolitical_data(files).raised)
    => /\ ~UnifierRaised
       /\ ~load_oil_data(files).raised
       /\ ~load_hardware_data(files).raised


----------------------------------------------------------------------------
(* Properties of a repeated run *)

\* a later run of the three scripts is under way or over
LaterRun == callIn.fn = "rerun" /\ callIn.run > 1

----------------------------------------------------------------------------
(* Properties of the orchestrator *)

Stages == {StageSeq[i] : i \in 1..Len(StageSeq)}

StartedSet == {started[i] : i \in 1..Len(started)}

\* the stages started are the first stages of SCRIPTS, in its order
InStageOrder(seq) == \E n \in 0..Len(StageSeq) : seq = SubSeq(StageSeq, 1, n)

\* data_unifier.py and correlation_analyzer.py exit with status 0 on the
\* files of this run
UnifierSucceeds == ~UnifierMain(files, NoTable, NoTable).raised

AnalyzerSucceeds == ~AnalyzerMain(unified, geoNorm, NoTable, NoTable).raised

\* a step that starts a stage
StartsStage == started' # started

\* the steps: a step starts at most one stage, the next one of the fixed order, and
\* only when the stage before it has finished (no stage is half way: the
\* analyzer is not between its two functions)
StageStartsInOrder ==
    /\ InStageOrder(started')
    /\ StartsStage =>
          /\ started' = Append(started, pc)
          /\ pc \in Stages
          /\ started # <<>> => lastOk \in {"ok", "failed"}

\* the predictive stage has started only if the unifier and the correlation
\* analyzer both ran and completed successfully
PredictiveAfterSuccess ==
    "predictive" \in StartedSet =>
        /\ {"unifier", "analyzer"} \subseteq StartedSet
        /\ UnifierSucceeds
        /\ AnalyzerSucceeds

\* C23: stages start in the fixed order unifier, analyzer, visualizer,
\* mineral, regional, predictive, insights, dashboard, each at most once and
\* only after the previous stage has finished; the predictive stage never
\* starts unless the unifier and the correlation analyzer have both completed
\* successfully
C23_StagesStartInOrder ==
    /\ [][StageStartsInOrder]_vars
    /\ []PredictiveAfterSuccess

\* the predictive stage has just run and written its reports
C23_Witness ==
    /\ started = SubSeq(StageSeq, 1, StageIndex("predictive"))
    /\ pc = "insights"
    /\ reports.forecast.exists


\* the six output files of the pipeline
RequiredFiles == <<enriched, geoNorm, corrMatrix,
                   reports.forecast, reports.scenarios, reports.signals>>

\* C24: whenever main returns 0, each of the six required output files has
\* been written, the correlation matrix has the columns risk_indicator,
\* market_variable and correlation, and the BTC forecast has the columns
\* forecast_date, base_case and bull_case
C24_SuccessMeansOutputs ==
    exitCode = 0 =>
        /\ \A i \in 1..Len(RequiredFiles) : RequiredFiles[i].exists
        /\ {"risk_indicator", "market_variable", "correlation"} \subseteq corrMatrix.cols
        /\ {"forecast_date", "base_case", "bull_case"} \subseteq reports.forecast.cols


----------------------------------------------------------------------------
(* Properties of the contributing dates *)

\* the dates on which table t holds a value in column c
ValuedDates(t, c) ==
    IF c \notin t.cols THEN {}
    ELSE {t.rows[i]["date"] : i \in {j \in 1..Len(t.rows) : t.rows[j][c] # NA}}

\* the dates of the positions that contribute to the stored lag-L
\* correlation of (r, m)
ContributingDates(r, m, lag) ==
    {merged.rows[i]["date"] : i \in Contributing(r, m, lag)}

\* the dates with a value of m, and a value of r dated lag days before
PairedDates(agg, r, m, lag) ==
    {d \in ValuedDates(enriched, m) : (d - Timedelta(lag)) \in ValuedDates(agg, r)}

\* C25: for every pair (r, m) and lag, a date contributes to the correlation
\* if and only if the market variable holds a value on it and the risk
\* indicator holds one lag days before; whether another market variable (the
\* GPU medians) is missing on the date changes nothing
C25_ContributesIffBothPresent ==
    (AnalyzerDone /\ corrMatrix.exists) =>
        LET agg == GeoAgg(geoNorm)
        IN \A lag \in SweepLagSet : \A r \in RiskVars \cap merged.cols :
              \A m \in MarketVars \cap merged.cols :
                 ContributingDates(r, m, lag) = PairedDates(agg, r, m, lag)


----------------------------------------------------------------------------
(* Properties of the interpolation *)

\* analyze_timeseries has just written the enriched table
TimeseriesAnalyzed == pc = "analyzer_geo" /\ enriched.exists

\* the valid positions of a series before and after position i
ValidBefore(s, i) == {j \in 1..(i - 1) : s[j] # NA}

ValidAfter(s, i) == {j \in (i + 1)..Len(s) : s[j] # NA}

\* position i of the interpolated series out is as the claim says, given the
\* series s before the interpolation
InterpolatedAsStated(s, out, i) ==
    IF s[i] # NA THEN out[i] = s[i]
    ELSE IF ValidBefore(s, i) = {} \/ ValidAfter(s, i) = {} THEN out[i] = NA
    ELSE LET p == SetMax(ValidBefore(s, i))
             n == SetMin(ValidAfter(s, i))
         IN out[i] = s[p] + ((s[n] - s[p]) * (i - p)) \div (n - p)

\* C26: the interpolation step changes only missing values that lie strictly
\* between two valid values of the same price-like column, setting them on
\* the straight line between the neighbours; present values are unchanged,
\* and missing values before the first and after the last valid value of a
\* column stay missing
C26_InterpolatesInteriorOnly ==
    TimeseriesAnalyzed =>
        LET df == SortByDate(unified)
        IN \A c \in {x \in unified.cols : IsPriceLike(x)} :
              \A i \in 1..Len(df.rows) :
                 InterpolatedAsStated(Column(df, c), Column(enriched, c), i)


----------------------------------------------------------------------------
(* Properties of the trends *)

\* the dates of the table handed to the detector that lie in its most recent
\* 30 days
WindowDates ==
    {d \in DatesOf(callIn.geo_df) :
        d >= SetMax(DatesOf(callIn.geo_df)) - Timedelta(CutoffDays)}

\* Unit times the mean over the countries of column col on date d (missing
\* when the date is not in the window or no country holds a value)
DailyMean(col, d) ==
    IF d \notin WindowDates THEN NA
    ELSE ScaledMean(Column(Table(callIn.geo_df.cols,
                                 RowsWithKey(callIn.geo_df.rows, "date", d)), col))

\* the 7 days ending at date d, and whether each of them has a daily mean
WeekEnding(d) == {d - Timedelta(k) : k \in 0..(TrendWindow - 1)}

WeekKnown(col, d) == \A x \in WeekEnding(d) : DailyMean(col, x) # NA

\* 7 times the 7-day trailing moving average at date d
WeekTotal(col, d) ==
    LET days == SortedSeq(WeekEnding(d))
    IN SumTo([k \in 1..Len(days) |-> DailyMean(col, days[k])], Len(days))

\* the trend as stated: the moving average at the latest date minus the
\* moving average 7 days earlier, times TrendWindow
StatedTrend(col) ==
    LET last == SetMax(WindowDates)
        prev == last - Timedelta(7)
    IN IF WeekKnown(col, last) /\ WeekKnown(col, prev)
       THEN [def |-> TRUE, v |-> WeekTotal(col, last) - WeekTotal(col, prev)]
       ELSE NoTrend

\* C27: the risk and conflict trends equal the most recent value of the 7-day
\* trailing moving average of the daily cross-country mean, taken over the
\* most recent 30 days, minus the value of that moving average 7 days
\* earlier; whenever the 30-day window holds more than 7 dates both trends
\* are defined numbers
C27_TrendIsWeekOverWeek ==
    Returned("calculate_early_warning_signals") =>
        /\ Cardinality(WindowDates) > TrendWindow =>
              callOut.out.risk_trend.def /\ callOut.out.conflict_trend.def
        /\ callOut.out.risk_trend.def =>
              callOut.out.risk_trend = StatedTrend("geopolitical_risk")
        /\ callOut.out.conflict_trend.def =>
              callOut.out.conflict_trend = StatedTrend("conflicts")


----------------------------------------------------------------------------
(* Properties of the column discovery *)

\* the candidate list of the search that returned
CandidatesOf(fn) ==
    CASE fn = "find_column"           -> PriceCandidates
      [] fn = "gpu_find_price_column" -> GpuPriceNeedles
      [] fn = "ram_find_price_column" -> RamPriceNeedles

\* the columns of the header whose lower-cased name contains the candidate
ColumnsWith(cand) ==
    {k \in 1..Len(callIn.cols) : Contains(Lower(callIn.cols[k]), cand)}

\* the candidates, by position in their list, that match some column
MatchingCandidates(cands) == {n \in 1..Len(cands) : ColumnsWith(cands[n]) # {}}

\* C28: a column search returns the first column whose lower-cased name
\* contains the highest-priority candidate that matches any column; when no
\* candidate matches, the source is skipped with a logged message, nothing is
\* produced for it and nothing raises (find_column and both
\* find_price_column functions)
C28_ColumnByCandidatePriority ==
    \A fn \in {"find_column", "gpu_find_price_column", "ram_find_price_column"} :
        Returned(fn) =>
            LET cands == CandidatesOf(fn)
            IN IF MatchingCandidates(cands) = {}
               THEN /\ callOut.col = None
                    /\ callOut.logged /\ ~callOut.produced /\ ~callOut.raised
               ELSE /\ callOut.col =
                          callIn.cols[SetMin(ColumnsWith(cands[SetMin(MatchingCandidates(cands))]))]
                    /\ callOut.produced /\ ~callOut.raised


----------------------------------------------------------------------------
(* Properties of the price parsing *)

\* the characters the claim leaves in the text: digits, point and minus sign
IsKeptChar(ch) == ch \in Digits \cup {".", "-"}

\* what is left of the cell for the conversion
StrippedCell == SelectSeq(callIn.cell.text, IsKeptChar)

\* C29: parse_price never raises; it returns the number that is left after
\* removing currency symbols and words, every character outside [0-9.,-]
\* and all commas, or the missing marker when the cell is missing, empty or
\* not convertible after stripping; "$1,299.99 USD" gives 1299.99
C29_ParsePriceNeverRaises ==
    Returned("parse_price") =>
        /\ ~callOut.raised
        /\ callOut.value =
              IF callIn.cell.isna \/ PyFloat(StrippedCell).raised THEN MissingPrice
              ELSE PyFloat(StrippedCell).value
        /\ callIn.cell = ExampleCell =>
              callOut.value = [missing |-> FALSE, mant |-> 129999, scale |-> 2]

\* parse_price has returned 1299.99 for "$1,299.99 USD"
C29_Witness ==
    /\ Returned("parse_price")
    /\ callIn.cell = ExampleCell
    /\ callOut.value = [missing |-> FALSE, mant |-> 129999, scale |-> 2]


----------------------------------------------------------------------------
(* Properties of the failure handling of main *)

FirstThree == {"unifier", "analyzer", "visualizer"}

LaterFive == {"mineral", "regional", "predictive", "insights", "dashboard"}

\* run_script of stage st has just returned False
StageFailed(st) ==
    /\ started # <<>>
    /\ started[Len(started)] = st
    /\ pc # "analyzer_geo"
    /\ lastOk = "failed"

\* main has returned 0 after starting all eight stages
CompletedAll == pc = "done" /\ exitCode = 0 /\ started = StageSeq

LaterOrder == <<"mineral", "regional", "predictive", "insights", "dashboard">>

\* the stage that follows the later stage st
Following(st) ==
    LET i == CHOOSE k \in 1..Len(LaterOrder) : LaterOrder[k] = st
    IN LaterOrder[i + 1]

\* after the failure of a later stage main is about to start the following
\* one, or has returned 0 when the failed stage was the last
GoesOn(st) ==
    IF st = "dashboard" THEN CompletedAll
    ELSE pc = Following(st) /\ exitCode = 0 - 1

\* how far main has come: it grows with every stage started and when the
\* correlation analyzer moves on to its second function
Progress == 2 * Len(started) + (IF pc = "analyzer_geo" THEN 0 ELSE 1)

\* C30: when one of the first three stages (unifier, correlation analyzer,
\* visualizer) fails, no later stage is started and main returns 1; when one
\* of the later five stages fails, every stage after it is still started and
\* main returns 0; main always terminates after starting at most eight
\* stages (every step brings main further, until it has returned main is
\* about to start a stage or inside the correlation analyzer, and it returns
\* 0 only after all eight stages)
C30_FailureHandling ==
    /\ [](\A st \in FirstThree : StageFailed(st) => pc = "done" /\ exitCode = 1)
    /\ [](exitCode = 1 => \E st \in FirstThree : StageFailed(st))
    /\ [](\A st \in LaterFive : StageFailed(st) => GoesOn(st))
    /\ [](pc = "done" => exitCode \in {0, 1})
    /\ [](exitCode = 0 => CompletedAll)
    /\ [](Len(started) <= 8)
    /\ [](pc \in Stages \cup {"analyzer_geo", "done"})
    /\ [][pc # "done" /\ Progress' > Progress]_vars

\* main has returned 0 after all eight stages although the predictive stage
\* wrote no forecast and the dashboard generator failed
C30_Witness ==
    /\ CompletedAll
    /\ StageFailed("dashboard")
    /\ ~reports.forecast.exists

====
